---- MODULE Spec2Model ----
(***************************************************************************)
(* Verification model of huttj/sailing.                                    *)
(*                                                                         *)
(*   SpecQT    the region quadtree (src/src/points/PointQuadtree.js)       *)
(*   SpecDive  the DiveMode class driven method by method                  *)
(*   SpecRT    the runtime of main.js: game loop, key and UI handlers      *)
(*   SpecConn  the connection finder of scripts/project-2d.js              *)
(*   SpecDedup, SpecLOD, SpecZoom, SpecNorm, SpecSep, SpecLayout,          *)
(*   SpecLoad, SpecKeys: one part of the program each, see their sections  *)
(*                                                                         *)
(* Numbers.  The program computes in IEEE-754 doubles.  The quadtree part  *)
(* keeps the one property of doubles its code depends on: a sum is rounded *)
(* to the nearest representable value (ties to even), while halving a      *)
(* width is exact.  Values are integers counted in quarters of the spacing *)
(* between representable coordinates (Grain).                              *)
(***************************************************************************)
EXTENDS Integers, Sequences, FiniteSets, TLC

VARIABLES
  \* ---- quadtree ----
  root,          \* the root PointQuadtree node
  inserted,      \* points whose insert(...) on the root returned true, in order
  insertResult,  \* return value of the last insert: "none", TRUE or FALSE
  nInserts,      \* number of insert calls made
  query,         \* the last call on the root: its arguments, the list returned
  \* ---- runtime (main.js) ----
  posts,         \* post ids present in posts.json
  ship,          \* Ship: x, y, vx, vy, speed, maxSpeed
  dive,          \* DiveMode: active, targetIdea (0 is null, else an index into Ideas)
  controls,      \* ShipControls
  camera,        \* Camera: x, y, zoom, _targetZoom
  sidebar,       \* Sidebar: hidden (class sidebar-hidden), _currentIdea, _currentPost
  settings,      \* the settings object of main.js
  lastNearby,    \* the retained candidate list of the game loop
  visited,       \* ids with an entry in voyageLog._data.visited
  frameCount,    \* game loop frame counter
  now,           \* performance.now(), in ms
  nEvents,       \* number of input events handled so far
  exitPending,   \* the last handler served an exit request and no tick, dive
                 \* request or settings change has followed it
  trace,         \* what the last step did (observation only)
  hold,          \* history of the movement keys since the dive was entered
                 \* (observation only)
  \* ---- connection finder (project-2d.js) ----
  ideasDeduped,  \* the ideas with their positions and vectors, in input order
  connections,   \* connections[i] for the ideas processed so far
  ideasRaw,      \* ideas-raw.json joined with embeddings.json, in input order
  dropIds,       \* the set dropIds of the dedup loop
  dedup,         \* position of the dedup loops: group g, indices a and b
  cmp,           \* what the last iteration of the inner dedup loop did
  ideasOut,      \* the ideas written to ideas.json
  \* ---- layout (project-2d.js) ----
  stage,         \* how far the layout part of the script has run
  projection,    \* the pairs returned by umap.fit, in idea order
  umapNorm,      \* normalized, then contracted coordinates, in thousandths
  topicCentroids,\* the centroid objects in the order of centroidNames
  sep,           \* the separation loop: passes run, `moved` of the last pass
  positions,     \* world positions, in thousandths of a world unit
  jit,           \* the jitter loops: group g, indices a and b, pairs examined
  topicsOutput,  \* the topics written to topics.json
  random         \* the offsets the four Math.random() calls of a jittered pair
                 \* can yield in this run

qtVars == <<root, inserted, insertResult, nInserts, query>>

rtVars == <<posts, ship, dive, controls, camera, sidebar, settings, lastNearby,
            visited, frameCount, now, nEvents, exitPending, trace, hold>>

layoutVars == <<stage, projection, umapNorm, topicCentroids, sep, positions, jit,
                topicsOutput, random>>

connVars == <<ideasDeduped, connections, ideasRaw, dropIds, dedup, cmp, ideasOut,
              layoutVars>>

vars == <<root, inserted, insertResult, nInserts, query,
          posts, ship, dive, controls, camera, sidebar, settings, lastNearby,
          visited, frameCount, now, nEvents, exitPending, trace, hold,
          ideasDeduped, connections, ideasRaw, dropIds, dedup, cmp, ideasOut,
          stage, projection, umapNorm, topicCentroids, sep, positions, jit,
          topicsOutput, random>>

-----------------------------------------------------------------------------
(* Bounds of the quadtree model *)

\* spacing of representable coordinates, in model units (a quarter each)
Grain == 2 * 2

\* the root is Grain * 2^Levels wide: Levels halvings reach the spacing
Levels == 2

\* inserted coordinates are (k - 1) * Grain for k in 0 .. MaxCoord
MaxCoord == 4

\* number of insert calls in a run
MaxPoints == 3

\* largest node capacity tried
MaxCapacity == 2

RECURSIVE Pow2(_)
Pow2(k) == IF k = 0 THEN 1 ELSE 2 * Pow2(k - 1)

RootSize == Grain * Pow2(Levels)

Coords == { (k - 1) * Grain : k \in 0 .. MaxCoord }

YCoords == { 0 - Grain, 0, Grain }

\* the queries tried: <<cx, cy, r>>
Queries == { <<Grain, Grain, 0>>, <<2 * Grain, Grain, Grain>>, <<0, 0, 2 * Grain>> }

\* the rectangles queried: <<x, y, w, h>>
Rects ==
  { <<0, 0, 0, 0>>, <<0, 0, Grain, Grain>>, <<Grain, 0 - Grain, 2 * Grain, 2 * Grain>> }

-----------------------------------------------------------------------------
(* IEEE-754 arithmetic on the model's grid *)

\* a + b as the program computes it: rounded to the nearest representable
\* value, ties to the even one
FAdd(a, b) ==
  LET v == a + b
      q == v \div Grain
      r == v % Grain
  IN  IF 2 * r < Grain THEN q * Grain
      ELSE IF 2 * r > Grain THEN (q + 1) * Grain
      ELSE IF q % 2 = 0 THEN q * Grain ELSE (q + 1) * Grain

\* width / 2: exact, until it underflows to 0
Half(w) == w \div 2

Max(a, b) == IF a >= b THEN a ELSE b

Min(a, b) == IF a <= b THEN a ELSE b

-----------------------------------------------------------------------------
(* PointQuadtree *)

\* constructor(bounds, capacity); an absent child (null) is the empty sequence
NewNode(bounds, capacity) ==
  [ bounds |-> bounds, capacity |-> capacity, points |-> <<>>, divided |-> FALSE,
    ne |-> <<>>, nw |-> <<>>, se |-> <<>>, sw |-> <<>> ]

\* _containsPoint without the comparisons against the left and top edges
_containsPointNoLower(b, point) ==
  /\ point.x < FAdd(b.x, b.width)
  /\ point.y < FAdd(b.y, b.height)

_containsPoint(b, point) ==
  /\ point.x >= b.x
  /\ point.x < FAdd(b.x, b.width)
  /\ point.y >= b.y
  /\ point.y < FAdd(b.y, b.height)

\* the four children of _subdivide, before the points are re-inserted
WithChildren(n) ==
  LET x == n.bounds.x
      y == n.bounds.y
      hw == Half(n.bounds.width)
      hh == Half(n.bounds.height)
  IN  [ n EXCEPT
          !.nw = << NewNode([x |-> x, y |-> y, width |-> hw, height |-> hh], n.capacity) >>,
          !.ne = << NewNode([x |-> FAdd(x, hw), y |-> y, width |-> hw, height |-> hh], n.capacity) >>,
          !.sw = << NewNode([x |-> x, y |-> FAdd(y, hh), width |-> hw, height |-> hh], n.capacity) >>,
          !.se = << NewNode([x |-> FAdd(x, hw), y |-> FAdd(y, hh), width |-> hw, height |-> hh], n.capacity) >>,
          !.divided = TRUE ]

RECURSIVE insert(_, _)
RECURSIVE _subdivide(_)
RECURSIVE InsertChildren(_, _)
RECURSIVE Reinsert(_, _, _)

\* ne.insert(p) || nw.insert(p) || se.insert(p) || sw.insert(p) on a divided
\* node: a child that returns false may still have subdivided itself
InsertChildren(m, p) ==
  LET r1 == insert(m.ne[1], p)
      m1 == [m EXCEPT !.ne = << r1.node >>]
      r2 == insert(m1.nw[1], p)
      m2 == [m1 EXCEPT !.nw = << r2.node >>]
      r3 == insert(m2.se[1], p)
      m3 == [m2 EXCEPT !.se = << r3.node >>]
      r4 == insert(m3.sw[1], p)
      m4 == [m3 EXCEPT !.sw = << r4.node >>]
  IN  IF r1.ok THEN [ok |-> TRUE, node |-> m1]
      ELSE IF r2.ok THEN [ok |-> TRUE, node |-> m2]
      ELSE IF r3.ok THEN [ok |-> TRUE, node |-> m3]
      ELSE IF r4.ok THEN [ok |-> TRUE, node |-> m4]
      ELSE [ok |-> FALSE, node |-> m4]

\* the re-insert loop of _subdivide over this.points[i ..]
Reinsert(m, pts, i) ==
  IF i > Len(pts) THEN m
  ELSE Reinsert(InsertChildren(m, pts[i]).node, pts, i + 1)

_subdivide(n) ==
  [ Reinsert(WithChildren(n), n.points, 1) EXCEPT !.points = <<>> ]

\* insert with the bounds test made after the test for room in the node
insertRoomFirst(n, point) ==
  IF Len(n.points) < n.capacity /\ ~n.divided
    THEN [ok |-> TRUE, node |-> [n EXCEPT !.points = Append(@, point)]]
  ELSE IF ~_containsPoint(n.bounds, point) THEN [ok |-> FALSE, node |-> n]
  ELSE InsertChildren(IF ~n.divided THEN _subdivide(n) ELSE n, point)

\* insert(point): the return value and the node afterwards
insert(n, point) ==
  IF ~_containsPoint(n.bounds, point) THEN [ok |-> FALSE, node |-> n]
  ELSE IF Len(n.points) < n.capacity /\ ~n.divided
    THEN [ok |-> TRUE, node |-> [n EXCEPT !.points = Append(@, point)]]
  ELSE InsertChildren(IF ~n.divided THEN _subdivide(n) ELSE n, point)

RECURSIVE _queryRadiusInternal(_, _, _, _, _, _)
RECURSIVE PushWithin(_, _, _, _, _, _)

\* the loop over this.points of _queryRadiusInternal, from index i
PushWithin(pts, i, cx, cy, radiusSq, found) ==
  IF i > Len(pts) THEN found
  ELSE LET p == pts[i]
           pdx == p.x - cx
           pdy == p.y - cy
       IN  PushWithin(pts, i + 1, cx, cy, radiusSq,
             IF pdx * pdx + pdy * pdy <= radiusSq THEN Append(found, p) ELSE found)

_queryRadiusInternal(n, cx, cy, radius, radiusSq, found) ==
  LET b == n.bounds
      closestX == Max(b.x, Min(cx, FAdd(b.x, b.width)))
      closestY == Max(b.y, Min(cy, FAdd(b.y, b.height)))
      dx == cx - closestX
      dy == cy - closestY
  IN  IF dx * dx + dy * dy > radiusSq THEN found
      ELSE LET f0 == PushWithin(n.points, 1, cx, cy, radiusSq, found)
           IN  IF n.divided
                 THEN LET f1 == _queryRadiusInternal(n.ne[1], cx, cy, radius, radiusSq, f0)
                          f2 == _queryRadiusInternal(n.nw[1], cx, cy, radius, radiusSq, f1)
                          f3 == _queryRadiusInternal(n.se[1], cx, cy, radius, radiusSq, f2)
                      IN  _queryRadiusInternal(n.sw[1], cx, cy, radius, radiusSq, f3)
                 ELSE f0

queryRadius(n, cx, cy, radius) ==
  _queryRadiusInternal(n, cx, cy, radius, radius * radius, <<>>)

_intersectsRect(b, range) ==
  ~ \/ range.x > FAdd(b.x, b.width)
    \/ FAdd(range.x, range.width) < b.x
    \/ range.y > FAdd(b.y, b.height)
    \/ FAdd(range.y, range.height) < b.y

RECURSIVE _queryRectInternal(_, _, _)
RECURSIVE PushInRange(_, _, _, _)

\* the loop over this.points of _queryRectInternal, from index i
PushInRange(pts, i, range, found) ==
  IF i > Len(pts) THEN found
  ELSE LET p == pts[i]
       IN  PushInRange(pts, i + 1, range,
             IF /\ p.x >= range.x
                /\ p.x < FAdd(range.x, range.width)
                /\ p.y >= range.y
                /\ p.y < FAdd(range.y, range.height)
               THEN Append(found, p) ELSE found)

_queryRectInternal(n, range, found) ==
  IF ~_intersectsRect(n.bounds, range) THEN found
  ELSE LET f0 == PushInRange(n.points, 1, range, found)
       IN  IF n.divided
             THEN LET f1 == _queryRectInternal(n.ne[1], range, f0)
                      f2 == _queryRectInternal(n.nw[1], range, f1)
                      f3 == _queryRectInternal(n.se[1], range, f2)
                  IN  _queryRectInternal(n.sw[1], range, f3)
             ELSE f0

queryRect(n, x, y, w, h) ==
  _queryRectInternal(n, [x |-> x, y |-> y, width |-> w, height |-> h], <<>>)

-----------------------------------------------------------------------------
(* Fixed-point numbers of the runtime model.  Lengths, positions and       *)
(* velocities are counted in 1/Scale world units, zoom levels and blend    *)
(* factors in thousandths; a product or quotient is rounded toward zero.   *)

Scale == 2 * 5

\* a * n / d, rounded toward zero
MulDiv(a, n, d) ==
  IF a * n >= 0 THEN (a * n) \div d ELSE 0 - ((0 - a * n) \div d)

RECURSIVE SqrtBits(_, _, _)
\* largest r with r * r <= n, found bit by bit from 2^k down
SqrtBits(n, r, k) ==
  IF k < 0 THEN r
  ELSE LET c == r + Pow2(k)
       IN  SqrtBits(n, IF c * c <= n THEN c ELSE r, k - 1)

\* Math.sqrt(n), rounded down
Sqrt(n) == SqrtBits(n, 0, 14)

-----------------------------------------------------------------------------
(* The loaded dataset: ideas.json and posts.json *)

\* ideas.json; an idea is referred to by its index, 0 is null
Ideas ==
  << [id |-> "a", post_id |-> "p1", x |-> 0, y |-> 0],
     [id |-> "b", post_id |-> "p1", x |-> 4 * Scale, y |-> 0],
     [id |-> "c", post_id |-> "p2", x |-> 120 * Scale, y |-> 0] >>

IdeaRefs == 1 .. Len(Ideas)

\* posts.json may lack the post of an idea
PostSets == { {"p1"}, {"p1", "p2"} }

\* main.js: the quadtree built at load, every idea inserted
RECURSIVE BuildQuadtree(_, _)
BuildQuadtree(tree, i) ==
  IF i > Len(Ideas) THEN tree
  ELSE BuildQuadtree(
         insert(tree, [x |-> Ideas[i].x, y |-> Ideas[i].y, data |-> i]).node, i + 1)

quadtree ==
  BuildQuadtree(
    NewNode([x |-> 0 - 6000 * Scale, y |-> 0 - 6000 * Scale,
             width |-> 12000 * Scale, height |-> 12000 * Scale], 10), 1)

-----------------------------------------------------------------------------
(* DiveMode *)

SWITCH_DISTANCE == 80

\* MAGNET_STRENGTH = 0.02, in hundredths
MAGNET_STRENGTH == 2

\* constructor()
NewDiveMode == [active |-> FALSE, targetIdea |-> 0]

enter(d, idea) == [d EXCEPT !.active = TRUE, !.targetIdea = idea]

\* exit() that clears the flag and keeps the target
exitKeepTarget(d) == [d EXCEPT !.active = FALSE]

exit(d) == [d EXCEPT !.active = FALSE, !.targetIdea = 0]

updateShipMagnet(d, sh) ==
  IF ~d.active \/ d.targetIdea = 0 THEN sh
  ELSE LET dx == Ideas[d.targetIdea].x - sh.x
           dy == Ideas[d.targetIdea].y - sh.y
       IN  [sh EXCEPT !.vx = @ + MulDiv(dx, MAGNET_STRENGTH, 100),
                      !.vy = @ + MulDiv(dy, MAGNET_STRENGTH, 100)]

\* checkProximitySwitch with dist <= SWITCH_DISTANCE for dist < SWITCH_DISTANCE
checkProximitySwitchAtMost(d, nearby) ==
  IF ~d.active \/ d.targetIdea = 0 \/ Len(nearby) = 0
    THEN [dive |-> d, switched |-> <<>>]
  ELSE LET nearest == nearby[1]
       IN  IF /\ Ideas[nearest.idea].id # Ideas[d.targetIdea].id
              /\ nearest.distance <= SWITCH_DISTANCE * Scale
             THEN [dive |-> [d EXCEPT !.targetIdea = nearest.idea],
                   switched |-> << nearest.idea >>]
             ELSE [dive |-> d, switched |-> <<>>]

\* checkProximitySwitch without the early return for an inactive dive mode
\* or a null target: a null target differs from every candidate
checkProximitySwitchWhenIdle(d, nearby) ==
  IF Len(nearby) = 0
    THEN [dive |-> d, switched |-> <<>>]
  ELSE LET nearest == nearby[1]
       IN  IF /\ (d.targetIdea = 0 \/ Ideas[nearest.idea].id # Ideas[d.targetIdea].id)
              /\ nearest.distance < SWITCH_DISTANCE * Scale
             THEN [dive |-> [d EXCEPT !.targetIdea = nearest.idea],
                   switched |-> << nearest.idea >>]
             ELSE [dive |-> d, switched |-> <<>>]

\* checkProximitySwitch(nearby): the state afterwards and the ideas handed to
\* the _onSwitch callback, in call order
checkProximitySwitch(d, nearby) ==
  IF ~d.active \/ d.targetIdea = 0 \/ Len(nearby) = 0
    THEN [dive |-> d, switched |-> <<>>]
  ELSE LET nearest == nearby[1]
       IN  IF /\ Ideas[nearest.idea].id # Ideas[d.targetIdea].id
              /\ nearest.distance < SWITCH_DISTANCE * Scale
             THEN [dive |-> [d EXCEPT !.targetIdea = nearest.idea],
                   switched |-> << nearest.idea >>]
             ELSE [dive |-> d, switched |-> <<>>]

-----------------------------------------------------------------------------
(* Ship and ShipControls *)

\* Ship constructor
NewShip == [x |-> 0, y |-> 0, vx |-> 0, vy |-> 0, speed |-> 0, maxSpeed |-> 8 * Scale]

\* Ship.update(dt): drag 0.96, speed cap, position integration
ShipUpdate(sh) ==
  LET vx1 == MulDiv(sh.vx, 96, 100)
      vy1 == MulDiv(sh.vy, 96, 100)
      sp == Sqrt(vx1 * vx1 + vy1 * vy1)
      over == sp > sh.maxSpeed
      vx2 == IF over THEN MulDiv(vx1, sh.maxSpeed, sp) ELSE vx1
      vy2 == IF over THEN MulDiv(vy1, sh.maxSpeed, sp) ELSE vy1
  IN  [sh EXCEPT !.vx = vx2, !.vy = vy2,
                 !.speed = IF over THEN sh.maxSpeed ELSE sp,
                 !.x = @ + vx2, !.y = @ + vy2]

\* ShipControls constructor
NewControls ==
  [ _keys |-> {}, _spacePressed |-> FALSE, _arrowHeldSince |-> 0,
    _arrowUndiveFired |-> FALSE, _arrowReleasedSinceUndive |-> TRUE ]

ArrowKeys == {"arrowup", "arrowdown", "arrowleft", "arrowright", "w", "a", "s", "d"}

_anyArrowHeld(c) == c._keys \cap ArrowKeys # {}

_onKeyDown(c, key) ==
  [c EXCEPT !._spacePressed = IF key = " " /\ " " \notin c._keys THEN TRUE ELSE @,
            !._keys = @ \cup {key}]

_onKeyUp(c, key) == [c EXCEPT !._keys = @ \ {key}]

\* ShipControls.update(ship, speedScale); speedScale in thousandths
ControlsUpdate(c, sh, speedScale) ==
  LET accel == MulDiv(35 * Scale, speedScale, 100 * 1000)
      up == IF c._keys \cap {"arrowup", "w"} # {} THEN accel ELSE 0
      down == IF c._keys \cap {"arrowdown", "s"} # {} THEN accel ELSE 0
      left == IF c._keys \cap {"arrowleft", "a"} # {} THEN accel ELSE 0
      right == IF c._keys \cap {"arrowright", "d"} # {} THEN accel ELSE 0
  IN  [sh EXCEPT !.vy = @ - up + down, !.vx = @ - left + right]

\* consumeSpace(): the return value and the controls afterwards
consumeSpace(c) == [v |-> c._spacePressed, controls |-> [c EXCEPT !._spacePressed = FALSE]]

\* resetArrowUndive() at time t
resetArrowUndive(c, t) ==
  [c EXCEPT !._arrowHeldSince = IF _anyArrowHeld(c) THEN t ELSE 0,
            !._arrowUndiveFired = FALSE,
            !._arrowReleasedSinceUndive = ~_anyArrowHeld(c)]

\* consumeArrowUndive(holdMs) at time t: the return value and the controls
consumeArrowUndive(c, holdMs, t) ==
  IF c._arrowUndiveFired THEN [v |-> FALSE, controls |-> c]
  ELSE IF _anyArrowHeld(c)
    THEN IF c._arrowHeldSince = 0 /\ ~c._arrowReleasedSinceUndive
           THEN [v |-> FALSE, controls |-> c]
           ELSE LET c1 == IF c._arrowHeldSince = 0
                            THEN [c EXCEPT !._arrowHeldSince = t] ELSE c
                IN  IF t - c1._arrowHeldSince >= holdMs
                      THEN [v |-> TRUE,
                            controls |-> [c1 EXCEPT !._arrowUndiveFired = TRUE,
                                                    !._arrowReleasedSinceUndive = FALSE]]
                      ELSE [v |-> FALSE, controls |-> c1]
  ELSE [v |-> FALSE,
        controls |-> [c EXCEPT !._arrowHeldSince = 0, !._arrowReleasedSinceUndive = TRUE]]

-----------------------------------------------------------------------------
(* Camera; zoom levels in thousandths *)

minZoom == 30

maxZoom == 10000

\* Camera constructor: zoom 0.3
NewCamera == [x |-> 0, y |-> 0, zoom |-> 300, _targetZoom |-> 300]

\* the double NaN (the result of 0 / 0), kept as a value that is no zoom level
NaN == 0 - 999999

\* Math.max(minZoom, Math.min(maxZoom, target)); Math.min and Math.max
\* return NaN for a NaN argument
setTargetZoom(cam, target) ==
  [cam EXCEPT !._targetZoom = IF target = NaN THEN NaN
                              ELSE Max(minZoom, Min(maxZoom, target))]

\* Camera.update(dt) following the ship: lerpFactor 0.08, _zoomLerp 0.015
CameraUpdate(cam, target) ==
  [cam EXCEPT !.x = @ + MulDiv(target.x - cam.x, 8, 100),
              !.y = @ + MulDiv(target.y - cam.y, 8, 100),
              !.zoom = IF cam.zoom = NaN \/ cam._targetZoom = NaN THEN NaN
                       ELSE @ + MulDiv(cam._targetZoom - cam.zoom, 15, 1000)]

-----------------------------------------------------------------------------
(* Sidebar and VoyageLog *)

NewSidebar == [hidden |-> TRUE, _currentIdea |-> 0, _currentPost |-> "null"]

\* the state touched by a UI call: the sidebar and the visit log
SidebarShow(u, idea, post) ==
  [u EXCEPT !.sidebar = [hidden |-> FALSE, _currentIdea |-> idea, _currentPost |-> post],
            !.visited = @ \cup {Ideas[idea].id}]

SidebarUpdateHighlight(u, idea) ==
  [u EXCEPT !.sidebar._currentIdea = idea,
            !.visited = @ \cup {Ideas[idea].id}]

SidebarHide(u) ==
  [u EXCEPT !.sidebar = [hidden |-> TRUE, _currentIdea |-> 0, _currentPost |-> "null"]]

-----------------------------------------------------------------------------
(* LODManager *)

RECURSIVE InsertSorted(_, _)
\* where a stable ascending sort puts e among the entries sorted so far
InsertSorted(sorted, e) ==
  IF sorted = <<>> THEN << e >>
  ELSE IF sorted[Len(sorted)].distance <= e.distance THEN Append(sorted, e)
  ELSE Append(InsertSorted(SubSeq(sorted, 1, Len(sorted) - 1), e), sorted[Len(sorted)])

RECURSIVE SortByDistance(_, _, _)
SortByDistance(list, i, sorted) ==
  IF i > Len(list) THEN sorted
  ELSE SortByDistance(list, i + 1, InsertSorted(sorted, list[i]))

\* the {idea, distance} entry of a quadtree hit
Candidate(pt, shipX, shipY) ==
  LET dx == Ideas[pt.data].x - shipX
      dy == Ideas[pt.data].y - shipY
  IN  [idea |-> pt.data, distance |-> Sqrt(dx * dx + dy * dy)]

\* update without the sort of the candidates
LODUpdateUnsorted(shipX, shipY, fc) ==
  IF fc % 3 # 0 THEN [skipped |-> TRUE, nearby |-> <<>>]
  ELSE LET results == queryRadius(quadtree, shipX, shipY, 1200 * Scale)
       IN  [skipped |-> FALSE,
            nearby |-> [i \in 1 .. Len(results) |-> Candidate(results[i], shipX, shipY)]]

\* update without the frameCount % 3 test
LODUpdateEveryTick(shipX, shipY, fc) ==
  LET results == queryRadius(quadtree, shipX, shipY, 1200 * Scale)
      nearby == [i \in 1 .. Len(results) |-> Candidate(results[i], shipX, shipY)]
  IN  [skipped |-> FALSE, nearby |-> SortByDistance(nearby, 1, <<>>)]

\* LODManager.update(shipX, shipY, frameCount); skipped stands for null
LODUpdate(shipX, shipY, fc) ==
  IF fc % 3 # 0 THEN [skipped |-> TRUE, nearby |-> <<>>]
  ELSE LET results == queryRadius(quadtree, shipX, shipY, 1200 * Scale)
           nearby == [i \in 1 .. Len(results) |-> Candidate(results[i], shipX, shipY)]
       IN  [skipped |-> FALSE, nearby |-> SortByDistance(nearby, 1, <<>>)]

-----------------------------------------------------------------------------
(* main.js: the game loop and the handlers.  A handler works on the bundle *)
(* u of the objects it can touch; tr records what it did.                  *)

DIVE_THRESHOLD == 150

WORLD_BOUND == 6500

VISITED_FAR == 100

\* ticks in a run, input events in a run, ms between two ticks
MaxFrames == 5

MaxEvents == 3

FrameMs == 500

\* the keys pressed in the model
ModelKeys == {"arrowleft", "arrowright", " "}

NewSettings ==
  [ zoomOutMin |-> 200, zoomInMax |-> 2000, farThreshold |-> 600 * Scale,
    closeThreshold |-> 40 * Scale, diveZoom |-> 2000, autodive |-> FALSE ]

NoTrace ==
  [ op |-> "init", arg |-> <<>>, writes |-> <<>>, switched |-> <<>>,
    exitRequest |-> FALSE, magnet |-> FALSE, afterExit |-> FALSE,
    before |-> [active |-> FALSE, targetIdea |-> 0] ]

\* the record of a step that starts now: before is the dive state it starts in
Fresh == [NoTrace EXCEPT !.before = dive]

Bundle ==
  [ ship |-> ship, dive |-> dive, controls |-> controls, camera |-> camera,
    sidebar |-> sidebar, lastNearby |-> lastNearby, visited |-> visited,
    tr |-> Fresh ]

\* an exit request that leaves the sidebar as it is
ExitWithoutHide(u) ==
  [u EXCEPT !.dive = exit(@),
            !.tr.writes = Append(@, "exit"),
            !.tr.exitRequest = TRUE]

\* diveMode.exit(); sidebar.hide() on an exit request
ExitAndHide(u) ==
  SidebarHide([u EXCEPT !.dive = exit(@),
                        !.tr.writes = Append(@, "exit"),
                        !.tr.exitRequest = TRUE])

\* the dive entry of the game loop and of voyageLog.onNavigate:
\* if (post) { diveMode.enter(idea); controls.resetArrowUndive(); sidebar.show(...) }
EnterIfPost(u, idea, t) ==
  IF Ideas[idea].post_id \in posts
    THEN SidebarShow([u EXCEPT !.dive = enter(@, idea),
                               !.controls = resetArrowUndive(@, t),
                               !.tr.writes = Append(@, "enter")],
                     idea, Ideas[idea].post_id)
    ELSE u

\* the diveMode.onSwitch callback of main.js
OnSwitch(u, idea) ==
  IF Ideas[idea].post_id \in posts
    THEN IF u.sidebar._currentPost = Ideas[idea].post_id
           THEN SidebarUpdateHighlight(u, idea)
           ELSE SidebarShow(u, idea, Ideas[idea].post_id)
    ELSE u

NearestInReach(u) ==
  /\ Len(u.lastNearby) > 0
  /\ u.lastNearby[1].distance < DIVE_THRESHOLD * Scale

\* game loop: spacebar dive / undive
TickSpace(u, t) ==
  LET cs == consumeSpace(u.controls)
      u1 == [u EXCEPT !.controls = cs.controls]
  IN  IF ~cs.v THEN u1
      ELSE IF u1.dive.active THEN ExitAndHide(u1)
      ELSE IF NearestInReach(u1) THEN EnterIfPost(u1, u1.lastNearby[1].idea, t)
      ELSE u1

\* game loop: arrow-key hold undive
TickArrowUndive(u, t) ==
  IF ~u.dive.active THEN u
  ELSE LET r == consumeArrowUndive(u.controls, 1500, t)
           u1 == [u EXCEPT !.controls = r.controls]
       IN  IF r.v THEN ExitAndHide(u1) ELSE u1

\* game loop: autodive on contact
TickAutodive(u, t) ==
  IF settings.autodive /\ ~u.dive.active /\ NearestInReach(u)
    THEN EnterIfPost(u, u.lastNearby[1].idea, t)
    ELSE u

Clamp(sh) ==
  LET B == WORLD_BOUND * Scale
      s1 == IF sh.x < 0 - B THEN [sh EXCEPT !.x = 0 - B, !.vx = 0] ELSE sh
      s2 == IF s1.x > B THEN [s1 EXCEPT !.x = B, !.vx = 0] ELSE s1
      s3 == IF s2.y < 0 - B THEN [s2 EXCEPT !.y = 0 - B, !.vy = 0] ELSE s2
  IN  IF s3.y > B THEN [s3 EXCEPT !.y = B, !.vy = 0] ELSE s3

\* game loop: controls, dive magnet, ship physics, world clamp
TickPhysics(u) ==
  LET speedScale == MulDiv(1000, 1000, Max(u.camera.zoom, 50))
      s0 == [u.ship EXCEPT !.maxSpeed = MulDiv(8 * Scale, speedScale, 1000)]
      s1 == ControlsUpdate(u.controls, s0, speedScale)
      s2 == IF u.dive.active THEN updateShipMagnet(u.dive, s1) ELSE s1
  IN  [u EXCEPT !.ship = Clamp(ShipUpdate(s2)),
                !.tr.magnet = u.dive.active /\ u.dive.targetIdea # 0]

RECURSIVE NearestUndimmed(_, _, _)
\* the distance of the first entry that is not visited-and-dimmed; -1 is Infinity
NearestUndimmed(nearby, vis, i) ==
  IF i > Len(nearby) THEN 0 - 1
  ELSE IF Ideas[nearby[i].idea].id \in vis /\ nearby[i].distance > VISITED_FAR * Scale
    THEN NearestUndimmed(nearby, vis, i + 1)
  ELSE nearby[i].distance

\* game loop: the target zoom while not diving.  With farThreshold equal to
\* closeThreshold clamped is closeThreshold, rawT is 1 - 0 / 0 = NaN and so
\* is the target; a NaN camera.zoom makes speed and the target NaN as well
AutoZoomTarget(u) ==
  IF settings.farThreshold = settings.closeThreshold \/ u.camera.zoom = NaN THEN NaN
  ELSE
  LET nearestDist == NearestUndimmed(u.lastNearby, u.visited, 1)
      clamped == IF nearestDist < 0 THEN settings.farThreshold
                 ELSE Max(settings.closeThreshold, Min(settings.farThreshold, nearestDist))
      rawT == 1000 - MulDiv(clamped - settings.closeThreshold, 1000,
                            settings.farThreshold - settings.closeThreshold)
      t == MulDiv(rawT, rawT, 1000)
      proximityZoom == settings.zoomOutMin
                         + MulDiv(t, settings.zoomInMax - settings.zoomOutMin, 1000)
      speed == MulDiv(u.ship.speed, u.camera.zoom, Scale)
      moveFactor == Min(1000, Max(0, MulDiv(speed - 2000, 1000, 5000 - 2000)))
      cruisingZoom == MulDiv(settings.zoomOutMin, 15, 10)
  IN  proximityZoom + MulDiv(moveFactor, cruisingZoom - proximityZoom, 1000)

\* auto-zoom without the branch for an active dive mode
TickCameraNoDive(u) ==
  [u EXCEPT !.camera = CameraUpdate(setTargetZoom(u.camera, AutoZoomTarget(u)), u.ship)]

\* game loop: auto-zoom and camera.update
TickCamera(u) ==
  LET c1 == IF u.dive.active THEN setTargetZoom(u.camera, settings.diveZoom)
            ELSE setTargetZoom(u.camera, AutoZoomTarget(u))
  IN  [u EXCEPT !.camera = CameraUpdate(c1, u.ship)]

\* game loop: LOD update and proximity switch at frame fc
TickLOD(u, fc) ==
  LET lod == LODUpdate(u.ship.x, u.ship.y, fc)
      u1 == IF lod.skipped THEN u ELSE [u EXCEPT !.lastNearby = lod.nearby]
  IN  IF u1.dive.active /\ fc % 3 = 0
        THEN LET r == checkProximitySwitch(u1.dive, u1.lastNearby)
                 u2 == [u1 EXCEPT !.dive = r.dive]
             IN  IF r.switched = <<>> THEN u2
                 ELSE OnSwitch([u2 EXCEPT !.tr.writes = Append(@, "switchTarget"),
                                          !.tr.switched = r.switched],
                               r.switched[1])
        ELSE u1

\* one call of the ticker callback at frame fc and time t
GameLoop(u, fc, t) ==
  TickLOD(TickCamera(TickPhysics(TickAutodive(TickArrowUndive(TickSpace(u, t), t), t))), fc)

\* the keydown listener of main.js for Escape
OnEscape(u) == IF u.dive.active THEN ExitAndHide(u) ELSE u

\* sidebar.onCloseRequest callback
OnCloseRequest(u) ==
  IF u.dive.active THEN ExitAndHide(u) ELSE SidebarHide(u)

Teleport(sh, idea) ==
  [sh EXCEPT !.x = Ideas[idea].x, !.y = Ideas[idea].y, !.vx = 0, !.vy = 0]

\* sidebar.onNavigate callback: it assigns diveMode.targetIdea itself
OnSidebarNavigate(u, idea) ==
  LET u1 == [u EXCEPT !.ship = Teleport(@, idea)]
  IN  IF u1.dive.active
        THEN SidebarUpdateHighlight(
               [u1 EXCEPT !.dive.targetIdea = idea,
                          !.tr.writes = Append(@, "sidebar.onNavigate")], idea)
        ELSE u1

\* voyageLog.onNavigate callback
OnVoyageNavigate(u, idea, t) ==
  EnterIfPost([u EXCEPT !.ship = Teleport(@, idea)], idea, t)

-----------------------------------------------------------------------------
(* Parts of a state the specifications that do not use them hold fixed *)

\* no dive entered: no fresh press of a movement key since the entry, no
\* true return of consumeArrowUndive since the entry, no call made last
NoHold == [fresh |-> FALSE, pressedAt |-> 0, fired |-> 0, last |-> "none"]

IdleQT ==
  /\ root = NewNode([x |-> 0, y |-> 0, width |-> RootSize, height |-> RootSize], 1)
  /\ inserted = <<>>
  /\ insertResult = "none"
  /\ nInserts = 0
  /\ query = [kind |-> "none", cx |-> 0, cy |-> 0, r |-> 0, found |-> <<>>]

IdleRT ==
  /\ posts = {}
  /\ ship = NewShip
  /\ dive = NewDiveMode
  /\ controls = NewControls
  /\ camera = NewCamera
  /\ sidebar = NewSidebar
  /\ settings = NewSettings
  /\ lastNearby = <<>>
  /\ visited = {}
  /\ frameCount = 0
  /\ now = FrameMs
  /\ nEvents = 0
  /\ exitPending = FALSE
  /\ hold = NoHold
  /\ trace = NoTrace

\* the dedup loops have not run an iteration
NoCmp ==
  [ a |-> "none", b |-> "none", compared |-> FALSE, dropped |-> "none",
    aWasDropped |-> FALSE, bWasDropped |-> FALSE, before |-> {} ]

\* the dedup loops have ended; filtered: ideasDeduped has been computed
EndOfScan == [g |-> 0, a |-> 0, b |-> 0, done |-> TRUE, filtered |-> TRUE]

IdleDedup ==
  /\ ideasRaw = <<>>
  /\ dropIds = {}
  /\ dedup = EndOfScan
  /\ cmp = NoCmp

\* the separation loop has not run a pass
NoSep == [pass |-> 0, moved |-> FALSE, done |-> FALSE]

\* the jitter loops have not examined a pair
NoJit == [g |-> 0, a |-> 0, b |-> 0, pairs |-> <<>>, done |-> FALSE]

IdleLayout ==
  /\ stage = "idle"
  /\ projection = <<>>
  /\ umapNorm = <<>>
  /\ topicCentroids = <<>>
  /\ sep = NoSep
  /\ positions = <<>>
  /\ jit = NoJit
  /\ topicsOutput = <<>>
  /\ random = {}

IdleConn ==
  /\ ideasDeduped = <<>>
  /\ connections = <<>>
  /\ ideasOut = <<>>
  /\ IdleDedup
  /\ IdleLayout

-----------------------------------------------------------------------------
(* SpecRT: the runtime after a successful load *)

InitRT ==
  /\ posts \in PostSets
  /\ ship = NewShip
  /\ dive = NewDiveMode
  /\ controls = NewControls
  /\ camera = NewCamera
  /\ sidebar = NewSidebar
  /\ settings = NewSettings
  /\ lastNearby = <<>>
  /\ visited = {}
  /\ frameCount = 0
  /\ now = FrameMs
  /\ nEvents = 0
  /\ exitPending = FALSE
  /\ hold = NoHold
  /\ trace = NoTrace
  /\ IdleQT
  /\ IdleConn

\* the objects of u become the next state
Commit(u) ==
  /\ ship' = u.ship
  /\ dive' = u.dive
  /\ controls' = u.controls
  /\ camera' = u.camera
  /\ sidebar' = u.sidebar
  /\ lastNearby' = u.lastNearby
  /\ visited' = u.visited

FrameRT == UNCHANGED <<posts, qtVars, connVars, hold>>

\* an input event handler ran; the exit request it served, or one `was`
\* pending before it, is pending afterwards unless a space press waits to be
\* consumed
Event(u, name, was) ==
  /\ nEvents < MaxEvents
  /\ nEvents' = nEvents + 1
  /\ Commit(u)
  /\ trace' = [u.tr EXCEPT !.op = name]
  /\ exitPending' = ((was \/ u.tr.exitRequest) /\ ~u.controls._spacePressed)
  /\ UNCHANGED <<settings, frameCount, now>>
  /\ FrameRT

\* app.ticker callback
Tick ==
  /\ frameCount < MaxFrames
  /\ LET u == GameLoop(Bundle, frameCount + 1, now + FrameMs)
     IN  /\ Commit(u)
         /\ trace' = [u.tr EXCEPT !.op = "tick", !.afterExit = exitPending]
  /\ frameCount' = frameCount + 1
  /\ now' = now + FrameMs
  /\ exitPending' = trace'.exitRequest
  /\ UNCHANGED <<settings, nEvents>>
  /\ FrameRT

KeyDown ==
  \E key \in ModelKeys :
    Event([Bundle EXCEPT !.controls = _onKeyDown(@, key)], "keydown", exitPending)

KeyUp ==
  \E key \in ModelKeys :
    /\ key \in controls._keys
    /\ Event([Bundle EXCEPT !.controls = _onKeyUp(@, key)], "keyup", exitPending)

Escape ==
  LET u == OnEscape(Bundle)
  IN  Event(u, "Escape", exitPending)

SidebarClose ==
  /\ ~sidebar.hidden
  /\ LET u == OnCloseRequest(Bundle)
     IN  Event(u, "sidebar.close", exitPending)

SidebarNavigate ==
  /\ ~sidebar.hidden
  /\ \E idea \in IdeaRefs : Event(OnSidebarNavigate(Bundle, idea), "sidebar.navigate", exitPending)

VoyageNavigate ==
  \E idea \in IdeaRefs : Event(OnVoyageNavigate(Bundle, idea, now), "voyageLog.navigate", FALSE)

\* the autodive checkbox
ToggleAutodive ==
  /\ nEvents < MaxEvents
  /\ nEvents' = nEvents + 1
  /\ settings' = [settings EXCEPT !.autodive = ~@]
  /\ trace' = [Fresh EXCEPT !.op = "autodive"]
  /\ exitPending' = FALSE
  /\ UNCHANGED <<ship, dive, controls, camera, sidebar, lastNearby, visited, frameCount, now>>
  /\ FrameRT

NextRT ==
  \/ Tick
  \/ KeyDown
  \/ KeyUp
  \/ Escape
  \/ SidebarClose
  \/ SidebarNavigate
  \/ VoyageNavigate
  \/ ToggleAutodive

SpecRT == InitRT /\ [][NextRT]_vars

-----------------------------------------------------------------------------
(* SpecQT: a quadtree of some capacity, insert calls, radius queries *)

InitQT ==
  /\ \E capacity \in 1 .. MaxCapacity :
       root = NewNode([x |-> 0, y |-> 0, width |-> RootSize, height |-> RootSize], capacity)
  /\ inserted = <<>>
  /\ insertResult = "none"
  /\ nInserts = 0
  /\ query = [kind |-> "none", cx |-> 0, cy |-> 0, r |-> 0, found |-> <<>>]
  /\ IdleRT
  /\ IdleConn

\* quadtree.insert({x, y, data}); data names the call, so points are distinct;
\* query keeps the coordinates of the call
Insert ==
  /\ nInserts < MaxPoints
  /\ \E x \in Coords, y \in YCoords :
       LET point == [x |-> x, y |-> y, data |-> nInserts + 1]
           res == insert(root, point)
       IN  /\ root' = res.node
           /\ insertResult' = res.ok
           /\ inserted' = IF res.ok THEN Append(inserted, point) ELSE inserted
           /\ query' = [kind |-> "insert", cx |-> x, cy |-> y, r |-> 0, found |-> <<>>]
  /\ nInserts' = nInserts + 1
  /\ UNCHANGED <<rtVars, connVars>>

\* quadtree.queryRadius(cx, cy, r)
QueryRadius ==
  /\ \E q \in Queries :
       query' = [kind |-> "radius", cx |-> q[1], cy |-> q[2], r |-> q[3],
                 found |-> queryRadius(root, q[1], q[2], q[3])]
  /\ UNCHANGED <<root, inserted, insertResult, nInserts>>
  /\ UNCHANGED <<rtVars, connVars>>

\* quadtree.queryRect(x, y, w, h)
QueryRect ==
  /\ \E q \in Rects :
       query' = [kind |-> "rect", x |-> q[1], y |-> q[2], w |-> q[3], h |-> q[4],
                 found |-> queryRect(root, q[1], q[2], q[3], q[4])]
  /\ UNCHANGED <<root, inserted, insertResult, nInserts>>
  /\ UNCHANGED <<rtVars, connVars>>

NextQT == Insert \/ QueryRadius \/ QueryRect

SpecQT == InitQT /\ [][NextQT]_vars

-----------------------------------------------------------------------------
(* SpecDive: one DiveMode and one ship, the methods called in any order    *)
(* with any argument                                                       *)

\* method calls in a run
MaxCalls == 4

\* candidate distances tried: at the target, just inside and just outside
\* the switch distance, far away
CandidateDistances ==
  { 0, SWITCH_DISTANCE * Scale - 1, SWITCH_DISTANCE * Scale, 200 * Scale }

\* the lists handed to checkProximitySwitch: sorted by distance, no idea twice
NearbyLists ==
  { <<>> }
  \cup { << [idea |-> i, distance |-> d] >> : i \in IdeaRefs, d \in CandidateDistances }
  \cup { << [idea |-> l[1], distance |-> l[3]], [idea |-> l[2], distance |-> l[4]] >> :
           l \in { m \in IdeaRefs \X IdeaRefs \X CandidateDistances \X CandidateDistances :
                     m[1] # m[2] /\ m[3] <= m[4] } }

StartShips ==
  { NewShip, [NewShip EXCEPT !.x = 50 * Scale, !.y = 0 - 20 * Scale, !.vx = 3] }

InitDive ==
  /\ dive = NewDiveMode
  /\ ship \in StartShips
  /\ posts = {}
  /\ controls = NewControls
  /\ camera = NewCamera
  /\ sidebar = NewSidebar
  /\ settings = NewSettings
  /\ lastNearby = <<>>
  /\ visited = {}
  /\ frameCount = 0
  /\ now = FrameMs
  /\ nEvents = 0
  /\ exitPending = FALSE
  /\ hold = NoHold
  /\ trace = NoTrace
  /\ IdleQT
  /\ IdleConn

\* a method call that leaves d, sh and the record tr of what it did
Call(d, sh, tr) ==
  /\ nEvents < MaxCalls
  /\ nEvents' = nEvents + 1
  /\ dive' = d
  /\ ship' = sh
  /\ trace' = tr
  /\ UNCHANGED <<posts, controls, camera, sidebar, settings, lastNearby, visited,
                 frameCount, now, exitPending>>
  /\ UNCHANGED <<qtVars, connVars, hold>>

DMEnter ==
  \E idea \in IdeaRefs :
    Call(enter(dive, idea), ship, [Fresh EXCEPT !.op = "enter", !.arg = << idea >>])

DMExit == Call(exit(dive), ship, [Fresh EXCEPT !.op = "exit"])

DMUpdateShipMagnet ==
  Call(dive, updateShipMagnet(dive, ship), [Fresh EXCEPT !.op = "updateShipMagnet"])

DMCheckProximitySwitch ==
  \E nearby \in NearbyLists :
    LET r == checkProximitySwitch(dive, nearby)
    IN  Call(r.dive, ship,
             [Fresh EXCEPT !.op = "checkProximitySwitch", !.arg = nearby,
                             !.switched = r.switched])

NextDive == DMEnter \/ DMExit \/ DMUpdateShipMagnet \/ DMCheckProximitySwitch

SpecDive == InitDive /\ [][NextDive]_vars

-----------------------------------------------------------------------------
(* project-2d.js: the connection finder.  Positions are whole world units  *)
(* on one line, so every distance is a whole number; a cosine similarity   *)
(* is counted in ten-thousandths.                                          *)

\* ideas in a run of the connection finder
ConnPoints == 3

ConnXs == { 0, 5, 10, 2000 }

ConnPosts == { "p", "q" }

ConnVectors == { <<1, 0>>, <<3, 4>> }

RECURSIVE Dot(_, _, _)
Dot(a, b, i) == IF i > Len(a) THEN 0 ELSE a[i] * b[i] + Dot(a, b, i + 1)

\* cosineSim(a, b) = dot / (|a| |b| + 1e-10)
cosineSim(a, b) ==
  LET den == Sqrt(Dot(a, a, 1)) * Sqrt(Dot(b, b, 1))
  IN  IF den = 0 THEN 0 ELSE MulDiv(Dot(a, b, 1), 10000, den)

\* the body of the loop over j without `if (j === i) continue`
ScanStepSelf(pts, i, j, acc) ==
  LET dx == pts[j].x - pts[i].x
      dy == pts[j].y - pts[i].y
      spatialDist == Sqrt(dx * dx + dy * dy)
      a1 == IF /\ (acc.nearbyDist < 0 \/ spatialDist < acc.nearbyDist)
               /\ (pts[j].post_id # pts[i].post_id \/ acc.nearbyId = "null")
              THEN [acc EXCEPT !.nearbyDist = spatialDist, !.nearbyId = pts[j].id]
              ELSE acc
  IN  IF /\ spatialDist > 1500
         /\ pts[j].post_id # pts[i].post_id
         /\ cosineSim(pts[i].emb, pts[j].emb) > a1.farScore
        THEN [a1 EXCEPT !.farScore = cosineSim(pts[i].emb, pts[j].emb), !.farId = pts[j].id]
        ELSE a1

\* the body of the loop over j with a far link that takes ideas of the same
\* post_id as well
ScanStepFarAnyPost(pts, i, j, acc) ==
  IF j = i THEN acc
  ELSE LET dx == pts[j].x - pts[i].x
           dy == pts[j].y - pts[i].y
           spatialDist == Sqrt(dx * dx + dy * dy)
           a1 == IF /\ (acc.nearbyDist < 0 \/ spatialDist < acc.nearbyDist)
                    /\ (pts[j].post_id # pts[i].post_id \/ acc.nearbyId = "null")
                   THEN [acc EXCEPT !.nearbyDist = spatialDist, !.nearbyId = pts[j].id]
                   ELSE acc
           sim == cosineSim(pts[i].emb, pts[j].emb)
       IN  IF spatialDist > 1500 /\ sim > a1.farScore
             THEN [a1 EXCEPT !.farScore = sim, !.farId = pts[j].id]
             ELSE a1

\* the body of the loop over j for idea i; nearbyDist -1 is Infinity,
\* farScore -20000 is -Infinity
ScanStep(pts, i, j, acc) ==
  IF j = i THEN acc
  ELSE LET dx == pts[j].x - pts[i].x
           dy == pts[j].y - pts[i].y
           spatialDist == Sqrt(dx * dx + dy * dy)
           a1 == IF /\ (acc.nearbyDist < 0 \/ spatialDist < acc.nearbyDist)
                    /\ (pts[j].post_id # pts[i].post_id \/ acc.nearbyId = "null")
                   THEN [acc EXCEPT !.nearbyDist = spatialDist, !.nearbyId = pts[j].id]
                   ELSE acc
           sim == cosineSim(pts[i].emb, pts[j].emb)
       IN  IF /\ spatialDist > 1500
              /\ pts[j].post_id # pts[i].post_id
              /\ sim > a1.farScore
             THEN [a1 EXCEPT !.farScore = sim, !.farId = pts[j].id]
             ELSE a1

RECURSIVE Scan(_, _, _, _)
Scan(pts, i, j, acc) ==
  IF j > Len(pts) THEN acc ELSE Scan(pts, i, j + 1, ScanStep(pts, i, j, acc))

\* connections[i] = { nearby, far }
Connection(pts, i) ==
  LET acc == Scan(pts, i, 1,
                  [nearbyId |-> "null", nearbyDist |-> 0 - 1,
                   farId |-> "null", farScore |-> 0 - 20000])
  IN  [nearby |-> acc.nearbyId, far |-> acc.farId]

ConnIds == << "i1", "i2", "i3", "i4", "i5" >>

InitConn ==
  /\ \E xs \in [1 .. ConnPoints -> ConnXs], ps \in [1 .. ConnPoints -> ConnPosts],
        es \in [1 .. ConnPoints -> ConnVectors] :
       ideasDeduped = [i \in 1 .. ConnPoints |->
                         [id |-> ConnIds[i], post_id |-> ps[i], x |-> xs[i], y |-> 0,
                          emb |-> es[i]]]
  /\ connections = <<>>
  /\ ideasOut = <<>>
  /\ IdleDedup
  /\ IdleLayout
  /\ IdleQT
  /\ IdleRT

\* one round of ideasDeduped.map((idea, i) => ...)
FindConnections ==
  /\ Len(connections) < Len(ideasDeduped)
  /\ connections' = Append(connections, Connection(ideasDeduped, Len(connections) + 1))
  /\ UNCHANGED <<ideasDeduped, ideasOut, ideasRaw, dropIds, dedup, cmp>>
  /\ UNCHANGED layoutVars
  /\ UNCHANGED <<qtVars, rtVars>>

\* the entry of ideas.json for idea i: its id, post_id and connections (the
\* other fields are copied and take part in nothing here)
OutputIdea(pts, conns, i) ==
  [id |-> pts[i].id, post_id |-> pts[i].post_id, connections |-> conns[i]]

\* const ideas = ideasDeduped.map(...); writeFileSync(ideas.json)
WriteIdeas ==
  /\ Len(connections) = Len(ideasDeduped)
  /\ ideasOut = <<>>
  /\ ideasOut' = [i \in 1 .. Len(ideasDeduped) |->
                    OutputIdea(ideasDeduped, connections, i)]
  /\ UNCHANGED <<ideasDeduped, connections, ideasRaw, dropIds, dedup, cmp>>
  /\ UNCHANGED layoutVars
  /\ UNCHANGED <<qtVars, rtVars>>

NextConn == FindConnections \/ WriteIdeas

SpecConn == InitConn /\ [][NextConn]_vars

-----------------------------------------------------------------------------
(* project-2d.js: the dedup loop.  An idea of ideasRaw carries its         *)
(* embedding (embeddingById[id]); <<>> stands for no embedding.  The quote *)
(* is kept by its length.                                                  *)

\* ideas in ideas-raw.json
DedupIdeas == 3

\* DEDUP_THRESHOLD = 0.92, in ten-thousandths
DEDUP_THRESHOLD == 9200

DedupTopics == { "t", "u" }

DedupQuotes == { 40, 60 }

\* embeddings of norm 25: the first and second, and the second and third,
\* are more similar than the threshold; the first and third are not
DedupVectors == { <<>>, <<25, 0>>, <<24, 7>>, <<20, 15>> }

RECURSIVE TopicOrder(_, _, _)
\* the keys of byTopic in insertion order
TopicOrder(raw, i, acc) ==
  IF i > Len(raw) THEN acc
  ELSE TopicOrder(raw, i + 1,
         IF \E k \in 1 .. Len(acc) : acc[k] = raw[i].topic
           THEN acc ELSE Append(acc, raw[i].topic))

RECURSIVE GroupOf(_, _, _)
\* byTopic[topic], as indices into ideasRaw from i on
GroupOf(raw, topic, i) ==
  IF i > Len(raw) THEN <<>>
  ELSE (IF raw[i].topic = topic THEN << i >> ELSE <<>>) \o GroupOf(raw, topic, i + 1)

\* Object.values(byTopic)
byTopic(raw) ==
  LET keys == TopicOrder(raw, 1, <<>>)
  IN  [g \in 1 .. Len(keys) |-> GroupOf(raw, keys[g], 1)]

\* first index of the inner loop, b = a + 2, for b = a + 1
InnerStartSkip(a) == a + 2

\* first index of the inner loop: let b = a + 1
InnerStart(a) == a + 1

RECURSIVE EnterOuter(_, _, _, _)
\* the outer loop arrives at group[a] of group g: where the next iteration of
\* the inner loop runs, or the end of the loops
EnterOuter(raw, drops, g, a) ==
  LET groups == byTopic(raw)
  IN  IF g > Len(groups)
        THEN [g |-> g, a |-> 0, b |-> 0, done |-> TRUE, filtered |-> FALSE]
      ELSE IF a > Len(groups[g]) THEN EnterOuter(raw, drops, g + 1, 1)
      ELSE IF raw[groups[g][a]].id \in drops THEN EnterOuter(raw, drops, g, a + 1)
      ELSE IF raw[groups[g][a]].emb = <<>> THEN EnterOuter(raw, drops, g, a + 1)
      ELSE IF InnerStart(a) > Len(groups[g]) THEN EnterOuter(raw, drops, g, a + 1)
      ELSE [g |-> g, a |-> a, b |-> InnerStart(a), done |-> FALSE, filtered |-> FALSE]

\* b++ of the inner loop
NextInner(raw, drops, at) ==
  IF at.b + 1 <= Len(byTopic(raw)[at.g])
    THEN [at EXCEPT !.b = at.b + 1]
    ELSE EnterOuter(raw, drops, at.g, at.a + 1)

\* the comparison of the quote lengths with > for >=
DropOfLater(ideaA, ideaB) ==
  IF ideaA.quote > ideaB.quote THEN ideaB ELSE ideaA

\* const drop = group[a].quote.length >= group[b].quote.length ? group[b] : group[a]
DropOf(ideaA, ideaB) ==
  IF ideaA.quote >= ideaB.quote THEN ideaB ELSE ideaA

\* the body of the inner loop at position `at`: dropIds and the record of
\* what it did
InnerBody(raw, drops, at) ==
  LET group == byTopic(raw)[at.g]
      ideaA == raw[group[at.a]]
      ideaB == raw[group[at.b]]
      rec == [ a |-> ideaA.id, b |-> ideaB.id, compared |-> FALSE, dropped |-> "none",
               aWasDropped |-> ideaA.id \in drops, bWasDropped |-> ideaB.id \in drops,
               before |-> drops ]
  IN  IF ideaB.id \in drops THEN [dropIds |-> drops, cmp |-> rec]
      ELSE IF ideaB.emb = <<>> THEN [dropIds |-> drops, cmp |-> rec]
      ELSE IF cosineSim(ideaA.emb, ideaB.emb) > DEDUP_THRESHOLD
        THEN [ dropIds |-> drops \cup { DropOf(ideaA, ideaB).id },
               cmp |-> [rec EXCEPT !.compared = TRUE,
                                   !.dropped = DropOf(ideaA, ideaB).id] ]
      ELSE [dropIds |-> drops, cmp |-> [rec EXCEPT !.compared = TRUE]]

RECURSIVE DedupFrom(_, _, _)
\* the loops from position `at` to their end: the final dropIds
DedupFrom(raw, drops, at) ==
  IF at.done THEN drops
  ELSE LET r == InnerBody(raw, drops, at)
       IN  DedupFrom(raw, r.dropIds, NextInner(raw, r.dropIds, at))

\* ideasRaw.filter(i => !dropIds.has(i.id))
Filter(raw, drops) == SelectSeq(raw, LAMBDA i : i.id \notin drops)

InitDedup ==
  /\ \E ts \in [1 .. DedupIdeas -> DedupTopics], qs \in [1 .. DedupIdeas -> DedupQuotes],
        es \in [1 .. DedupIdeas -> DedupVectors] :
       ideasRaw = [i \in 1 .. DedupIdeas |->
                     [id |-> ConnIds[i], topic |-> ts[i], quote |-> qs[i], emb |-> es[i]]]
  /\ dropIds = {}
  /\ dedup = EnterOuter(ideasRaw, {}, 1, 1)
  /\ cmp = NoCmp
  /\ ideasDeduped = <<>>
  /\ connections = <<>>
  /\ ideasOut = <<>>
  /\ IdleLayout
  /\ IdleQT
  /\ IdleRT

\* one iteration of the inner loop
DedupStep ==
  /\ ~dedup.done
  /\ LET r == InnerBody(ideasRaw, dropIds, dedup)
     IN  /\ dropIds' = r.dropIds
         /\ cmp' = r.cmp
         /\ dedup' = NextInner(ideasRaw, r.dropIds, dedup)
  /\ UNCHANGED <<ideasRaw, ideasDeduped, connections, ideasOut>>
  /\ UNCHANGED layoutVars
  /\ UNCHANGED <<qtVars, rtVars>>

\* const ideasDeduped = ideasRaw.filter(...)
DedupFilter ==
  /\ dedup.done /\ ~dedup.filtered
  /\ ideasDeduped' = Filter(ideasRaw, dropIds)
  /\ dedup' = [dedup EXCEPT !.filtered = TRUE]
  /\ UNCHANGED <<ideasRaw, dropIds, cmp, connections, ideasOut>>
  /\ UNCHANGED layoutVars
  /\ UNCHANGED <<qtVars, rtVars>>

NextDedup == DedupStep \/ DedupFilter

SpecDedup == InitDedup /\ [][NextDedup]_vars

-----------------------------------------------------------------------------
(* project-2d.js: the layout.  A normalized coordinate is counted in       *)
(* thousandths of the unit square and a world position in thousandths of a *)
(* world unit; products and quotients are rounded toward zero.  The raw    *)
(* UMAP output is a double: finite values are integers up to MAX_VALUE, a  *)
(* difference well beyond MAX_VALUE is an infinity, as in IEEE-754.        *)

Thousand == 10 * 100

\* the largest finite double (Number.MAX_VALUE), in model units
MAX_VALUE == 1000000

Infinity == 2 * 1000 * MAX_VALUE

IsInfinite(v) == v = Infinity \/ v = 0 - Infinity

\* the doubles next to MAX_VALUE are this far apart
TopSpacing == 2 * 8

\* a - b in doubles: a difference less than half a spacing beyond MAX_VALUE
\* is rounded to MAX_VALUE, one further out is an infinity
FSub(a, b) ==
  IF IsInfinite(a) THEN a
  ELSE IF IsInfinite(b) THEN 0 - b
  ELSE IF a - b >= MAX_VALUE + TopSpacing \div 2 THEN Infinity
  ELSE IF a - b > MAX_VALUE THEN MAX_VALUE
  ELSE IF 0 - (a - b) >= MAX_VALUE + TopSpacing \div 2 THEN 0 - Infinity
  ELSE IF 0 - (a - b) > MAX_VALUE THEN 0 - MAX_VALUE
  ELSE a - b

\* n / d in doubles for d # 0, the quotient in thousandths
FDiv(n, d) ==
  IF IsInfinite(n) /\ IsInfinite(d) THEN NaN
  ELSE IF IsInfinite(d) THEN 0
  ELSE IF IsInfinite(n) THEN (IF (n > 0) = (d > 0) THEN Infinity ELSE 0 - Infinity)
  ELSE MulDiv(n, Thousand, d)

RECURSIVE Extent(_, _, _)
\* the loop over projection: minX, maxX, minY, maxY
Extent(proj, i, acc) ==
  IF i > Len(proj) THEN acc
  ELSE Extent(proj, i + 1,
              [ minX |-> IF proj[i].x < acc.minX THEN proj[i].x ELSE acc.minX,
                maxX |-> IF proj[i].x > acc.maxX THEN proj[i].x ELSE acc.maxX,
                minY |-> IF proj[i].y < acc.minY THEN proj[i].y ELSE acc.minY,
                maxY |-> IF proj[i].y > acc.maxY THEN proj[i].y ELSE acc.maxY ])

\* maxX - minX || 1
RangeOr1(max, min) == IF FSub(max, min) = 0 THEN 1 ELSE FSub(max, min)

\* umapNorm = projection.map(([x, y]) => ({ x: (x - minX) / rangeX, ... }))
Normalize(proj) ==
  LET e == Extent(proj, 1, [ minX |-> Infinity, maxX |-> 0 - Infinity,
                             minY |-> Infinity, maxY |-> 0 - Infinity ])
      rangeX == RangeOr1(e.maxX, e.minX)
      rangeY == RangeOr1(e.maxY, e.minY)
  IN  [ i \in 1 .. Len(proj) |->
          [ x |-> FDiv(FSub(proj[i].x, e.minX), rangeX),
            y |-> FDiv(FSub(proj[i].y, e.minY), rangeY) ] ]

\* what the layout steps leave alone
LayoutFrame ==
  UNCHANGED <<qtVars, rtVars, ideasDeduped, connections, ideasRaw, dropIds, dedup, cmp,
              random>>

\* lines 95-112
NormalizeStep ==
  /\ stage = "projected"
  /\ umapNorm' = Normalize(projection)
  /\ stage' = "normalized"
  /\ UNCHANGED <<projection, topicCentroids, sep, positions, jit, topicsOutput, ideasOut>>
  /\ LayoutFrame

MIN_CENTROID_GAP == 200

\* for (let pass = 0; pass < 20; pass++)
PASS_BUDGET == 20

\* the body of the loops over a and b: the centroids after it and whether
\* it set `moved`
SepPair(cs, a, b) ==
  LET dx == cs[b].x - cs[a].x
      dy == cs[b].y - cs[a].y
      dist == Sqrt(dx * dx + dy * dy)
      \* nx * push = dx / dist * (MIN_CENTROID_GAP - dist) / 2
      px == MulDiv(dx, MIN_CENTROID_GAP - dist, 2 * dist)
      py == MulDiv(dy, MIN_CENTROID_GAP - dist, 2 * dist)
  IN  IF dist < MIN_CENTROID_GAP /\ dist > 0
        THEN [ cs |-> [cs EXCEPT ![a].x = @ - px, ![a].y = @ - py,
                                 ![b].x = @ + px, ![b].y = @ + py],
               moved |-> TRUE ]
        ELSE [ cs |-> cs, moved |-> FALSE ]

RECURSIVE SepPass(_, _, _, _)
\* one pass: the loops over a and b from pair (a, b) on
SepPass(cs, a, b, moved) ==
  IF a > Len(cs) THEN [cs |-> cs, moved |-> moved]
  ELSE IF b > Len(cs) THEN SepPass(cs, a + 1, a + 2, moved)
  ELSE LET r == SepPair(cs, a, b)
       IN  SepPass(r.cs, a, b + 1, moved \/ r.moved)

\* the loop over pass ends after a pass run as pass number n:
\* if (!moved) break, or pass < 20 fails
SepEndsNever(n, moved) == n = PASS_BUDGET

SepEnds(n, moved) == ~moved \/ n = PASS_BUDGET

\* lines 145-164, one pass
SeparationPass ==
  /\ stage = "contracted"
  /\ LET r == SepPass(topicCentroids, 1, 2, FALSE)
         ends == SepEnds(sep.pass + 1, r.moved)
     IN  /\ topicCentroids' = r.cs
         /\ sep' = [pass |-> sep.pass + 1, moved |-> r.moved, done |-> ends]
         /\ stage' = IF ends THEN "separated" ELSE stage
  /\ UNCHANGED <<projection, umapNorm, positions, jit, topicsOutput, ideasOut>>
  /\ LayoutFrame

RECURSIVE KeyOrder(_, _, _)
\* the keys of an accumulator object in insertion order
KeyOrder(keys, i, acc) ==
  IF i > Len(keys) THEN acc
  ELSE KeyOrder(keys, i + 1,
         IF \E k \in 1 .. Len(acc) : acc[k] = keys[i] THEN acc ELSE Append(acc, keys[i]))

RECURSIVE IndicesOf(_, _, _)
\* the indices i, in order, with keys[i] = key
IndicesOf(keys, key, i) ==
  IF i > Len(keys) THEN <<>>
  ELSE (IF keys[i] = key THEN << i >> ELSE <<>>) \o IndicesOf(keys, key, i + 1)

\* the idea indices of each key, the keys in insertion order
GroupsBy(keys) ==
  LET order == KeyOrder(keys, 1, <<>>)
  IN  [g \in 1 .. Len(order) |-> IndicesOf(keys, order[g], 1)]

RECURSIVE SumOver(_, _, _)
\* the sum of vals[idx[k]] for k from i on
SumOver(vals, idx, i) ==
  IF i > Len(idx) THEN 0 ELSE vals[idx[i]] + SumOver(vals, idx, i + 1)

\* topicCentroids: { x: sumX / count, y: sumY / count, count } per topic
Centroids(ideas, norm) ==
  LET groups == GroupsBy([i \in 1 .. Len(ideas) |-> ideas[i].topic])
  IN  [ g \in 1 .. Len(groups) |->
          [ name  |-> ideas[groups[g][1]].topic,
            x     |-> MulDiv(SumOver([i \in 1 .. Len(norm) |-> norm[i].x], groups[g], 1),
                             1, Len(groups[g])),
            y     |-> MulDiv(SumOver([i \in 1 .. Len(norm) |-> norm[i].y], groups[g], 1),
                             1, Len(groups[g])),
            count |-> Len(groups[g]) ] ]

\* topicCentroids[topic]
CentroidOf(cents, topic) == cents[CHOOSE g \in 1 .. Len(cents) : cents[g].name = topic]

\* 1 - CONTRACTION, in hundredths
KEEP == 100 - 82

\* c.x + (umapNorm[i].x - c.x) * (1 - CONTRACTION)
Contract(ideas, norm, cents) ==
  [ i \in 1 .. Len(norm) |->
      LET c == CentroidOf(cents, ideas[i].topic)
      IN  [ x |-> c.x + MulDiv(norm[i].x - c.x, KEEP, 100),
            y |-> c.y + MulDiv(norm[i].y - c.y, KEEP, 100) ] ]

\* lines 116-140
ContractStep ==
  /\ stage = "normalized"
  /\ topicCentroids' = Centroids(ideasDeduped, umapNorm)
  /\ umapNorm' = Contract(ideasDeduped, umapNorm, Centroids(ideasDeduped, umapNorm))
  /\ stage' = "contracted"
  /\ UNCHANGED <<projection, sep, positions, jit, topicsOutput, ideasOut>>
  /\ LayoutFrame

WORLD_MIN == 0 - 5000

WORLD_MAX == 5000

\* the position derived from the shifted centroid c instead of the point p
PositionAtCentroid(p, c) ==
  [ x |-> Thousand * WORLD_MIN + c.x * (WORLD_MAX - WORLD_MIN),
    y |-> Thousand * WORLD_MIN + c.y * (WORLD_MAX - WORLD_MIN) ]

\* { x: WORLD_MIN + p.x * (WORLD_MAX - WORLD_MIN), y: ... } for point p with
\* centroid c, which the code reads and does not use
PositionOf(p, c) ==
  [ x |-> Thousand * WORLD_MIN + p.x * (WORLD_MAX - WORLD_MIN),
    y |-> Thousand * WORLD_MIN + p.y * (WORLD_MAX - WORLD_MIN) ]

\* positions = umapNorm.map(...)
Positions(ideas, norm, cents) ==
  [ i \in 1 .. Len(norm) |-> PositionOf(norm[i], CentroidOf(cents, ideas[i].topic)) ]

JITTER_RADIUS == 30

PROXIMITY_THRESHOLD == 20

\* (Math.random() - 0.5) * 2 * JITTER_RADIUS lies in [-30, 30)
JitterDraws == { 0 - JITTER_RADIUS * Thousand, 0, JITTER_RADIUS * Thousand - 1 }

\* one group holding every idea
AllInOneGroup(ideas) == << [i \in 1 .. Len(ideas) |-> i] >>

\* Object.values(postIdeaIndices)
postIdeaIndices(ideas) == GroupsBy([i \in 1 .. Len(ideas) |-> ideas[i].post_id])

\* Math.sqrt(dx * dx + dy * dy) < PROXIMITY_THRESHOLD for positions pa, pb
Overlapping(pa, pb) ==
  LET dx == pa.x - pb.x
      dy == pa.y - pb.y
      t == PROXIMITY_THRESHOLD * Thousand
  IN  /\ 0 - t < dx /\ dx < t
      /\ 0 - t < dy /\ dy < t
      /\ dx * dx + dy * dy < t * t

RECURSIVE EnterGroup(_, _, _, _)
\* the loop over a arrives at indices[a] of group g: the next pair (a, b),
\* or the end of the loops; groups of fewer than 2 ideas are skipped
EnterGroup(groups, g, a, pairs) ==
  IF g > Len(groups) THEN [g |-> g, a |-> 0, b |-> 0, pairs |-> pairs, done |-> TRUE]
  ELSE IF Len(groups[g]) < 2 THEN EnterGroup(groups, g + 1, 1, pairs)
  ELSE IF a + 1 > Len(groups[g]) THEN EnterGroup(groups, g + 1, 1, pairs)
  ELSE [g |-> g, a |-> a, b |-> a + 1, pairs |-> pairs, done |-> FALSE]

\* b++ of the inner jitter loop
NextPair(groups, at, pairs) ==
  IF at.b + 1 <= Len(groups[at.g])
    THEN [at EXCEPT !.b = at.b + 1, !.pairs = pairs]
    ELSE EnterGroup(groups, at.g, at.a + 1, pairs)

\* lines 168-187
PositionsStep ==
  /\ stage = "separated"
  /\ positions' = Positions(ideasDeduped, umapNorm, topicCentroids)
  /\ jit' = EnterGroup(postIdeaIndices(ideasDeduped), 1, 1, <<>>)
  /\ stage' = IF jit'.done THEN "jittered" ELSE "positioned"
  /\ UNCHANGED <<projection, umapNorm, topicCentroids, sep, topicsOutput, ideasOut>>
  /\ LayoutFrame

\* lines 193-203, one iteration of the inner loop
JitterStep ==
  /\ stage = "positioned"
  /\ LET groups == postIdeaIndices(ideasDeduped)
         ia == groups[jit.g][jit.a]
         ib == groups[jit.g][jit.b]
         hit == Overlapping(positions[ia], positions[ib])
     IN  /\ IF hit
              THEN \E d \in random :
                     positions' = [positions EXCEPT ![ia].x = @ + d[1], ![ia].y = @ + d[2],
                                                    ![ib].x = @ + d[3], ![ib].y = @ + d[4]]
              ELSE positions' = positions
         /\ jit' = NextPair(groups, jit,
                            Append(jit.pairs, [ia |-> ia, ib |-> ib, hit |-> hit]))
         /\ stage' = IF jit'.done THEN "jittered" ELSE stage
  /\ UNCHANGED <<projection, umapNorm, topicCentroids, sep, topicsOutput, ideasOut>>
  /\ LayoutFrame

\* n / d rounded to the nearest integer, a half upward (Math.round)
RoundDiv(n, d) == (2 * n + d) \div (2 * d)

\* Math.round(v * 100) / 100 for v in thousandths
Round2(v) == RoundDiv(v, 10) * 10

\* the entry of ideas.json for idea i: its position (connections left out)
OutputPosition(ideas, pos, i) ==
  [ id |-> ideas[i].id, post_id |-> ideas[i].post_id, topic |-> ideas[i].topic,
    x |-> Round2(pos[i].x), y |-> Round2(pos[i].y) ]

RECURSIVE SortByCount(_, _)
\* topicsOutput.sort((a, b) => b.count - a.count), a stable sort, from entry i on
SortByCount(ts, i) ==
  IF i > Len(ts) THEN <<>>
  ELSE LET rest == SortByCount(ts, i + 1)
           k == Cardinality({ j \in 1 .. Len(rest) : rest[j].count > ts[i].count })
       IN  SubSeq(rest, 1, k) \o << ts[i] >> \o SubSeq(rest, k + 1, Len(rest))

\* topicsOutput: per topic of `ideas` the rounded mean of its ideas' x and y
TopicsOutput(out) ==
  LET groups == GroupsBy([i \in 1 .. Len(out) |-> out[i].topic])
  IN  SortByCount(
        [ g \in 1 .. Len(groups) |->
            [ name  |-> out[groups[g][1]].topic,
              x     |-> 10 * RoundDiv(SumOver([i \in 1 .. Len(out) |-> out[i].x], groups[g], 1),
                                      10 * Len(groups[g])),
              y     |-> 10 * RoundDiv(SumOver([i \in 1 .. Len(out) |-> out[i].y], groups[g], 1),
                                      10 * Len(groups[g])),
              count |-> Len(groups[g]) ] ], 1)

\* lines 255-292: ideas and topicsOutput are computed and written
WriteLayout ==
  /\ stage = "jittered"
  /\ ideasOut' = [i \in 1 .. Len(ideasDeduped) |-> OutputPosition(ideasDeduped, positions, i)]
  /\ topicsOutput' = TopicsOutput(ideasOut')
  /\ stage' = "written"
  /\ UNCHANGED <<projection, umapNorm, topicCentroids, sep, positions, jit>>
  /\ LayoutFrame

-----------------------------------------------------------------------------
(* SpecNorm: the normalizer on every short list of raw pairs *)

\* pairs in a run of the normalizer
NormPoints == 3

NormXs == { 0 - MAX_VALUE, 0, 3, MAX_VALUE }

NormYs == { 0, 4 }

InitNorm ==
  /\ \E n \in 1 .. NormPoints : projection \in [1 .. n -> [x : NormXs, y : NormYs]]
  /\ stage = "projected"
  /\ umapNorm = <<>>
  /\ topicCentroids = <<>>
  /\ sep = NoSep
  /\ positions = <<>>
  /\ jit = NoJit
  /\ topicsOutput = <<>>
  /\ random = {}
  /\ ideasDeduped = <<>>
  /\ connections = <<>>
  /\ ideasOut = <<>>
  /\ IdleDedup
  /\ IdleQT
  /\ IdleRT

NextNorm == NormalizeStep

SpecNorm == InitNorm /\ [][NextNorm]_vars

-----------------------------------------------------------------------------
(* SpecLOD: LODManager.update called tick after tick from a ship that is   *)
(* anywhere in the world                                                   *)

\* calls of update in a run
MaxLodCalls == 4

\* ship positions tried: at the ideas, around the edge of the query radius,
\* far from every idea
LodXs == { 0, 120 * Scale, 1200 * Scale, 1202 * Scale, 1320 * Scale, 0 - 1080 * Scale }

LodYs == { 0, 3 * Scale, 3000 * Scale }

InitLOD ==
  /\ posts = {}
  /\ \E x \in LodXs, y \in LodYs : ship = [NewShip EXCEPT !.x = x, !.y = y]
  /\ dive = NewDiveMode
  /\ controls = NewControls
  /\ camera = NewCamera
  /\ sidebar = NewSidebar
  /\ settings = NewSettings
  /\ lastNearby = <<>>
  /\ visited = {}
  /\ frameCount = 0
  /\ now = FrameMs
  /\ nEvents = 0
  /\ exitPending = FALSE
  /\ hold = NoHold
  /\ trace = NoTrace
  /\ IdleQT
  /\ IdleConn

\* frameCount++; const nearby = lodManager.update(ship.x, ship.y, frameCount);
\* if (nearby) lastNearby = nearby
LODCall ==
  /\ frameCount < MaxLodCalls
  /\ frameCount' = frameCount + 1
  /\ LET r == LODUpdate(ship.x, ship.y, frameCount + 1)
     IN  /\ lastNearby' = IF r.skipped THEN lastNearby ELSE r.nearby
         /\ trace' = [Fresh EXCEPT !.op = IF r.skipped THEN "update: null" ELSE "update"]
  /\ UNCHANGED <<posts, ship, dive, controls, camera, sidebar, settings, visited,
                 now, nEvents, exitPending>>
  /\ UNCHANGED <<qtVars, connVars, hold>>

\* the ship is somewhere else at the next call
Sail ==
  /\ nEvents < 1
  /\ nEvents' = nEvents + 1
  /\ \E x \in LodXs, y \in LodYs : ship' = [ship EXCEPT !.x = x, !.y = y]
  /\ trace' = [Fresh EXCEPT !.op = "sail"]
  /\ UNCHANGED <<posts, dive, controls, camera, sidebar, settings, lastNearby, visited,
                 frameCount, now, exitPending>>
  /\ UNCHANGED <<qtVars, connVars, hold>>

NextLOD == LODCall \/ Sail

SpecLOD == InitLOD /\ [][NextLOD]_vars

-----------------------------------------------------------------------------
(* SpecZoom: the auto-zoom block of the game loop and the settings sliders; *)
(* the rest of the loop is the choice of what the block reads: the dive     *)
(* state, the candidate list, the ship's speed                              *)

\* ticks in a run, slider inputs in a run
MaxZoomTicks == 3

MaxSlides == 2

\* the ends of each slider's range
SliderValues ==
  [ zoomOutMin |-> {30, 500}, zoomInMax |-> {1000, 8000},
    farThreshold |-> {500 * Scale, 5000 * Scale},
    closeThreshold |-> {20 * Scale, 500 * Scale},
    diveZoom |-> {2000, 10000} ]

ZoomDives == { NewDiveMode, enter(NewDiveMode, 1) }

ZoomNearby ==
  { <<>>, << [idea |-> 1, distance |-> 0] >>, << [idea |-> 2, distance |-> 450 * Scale] >> }

\* ship.speed: at rest, and cruising at maxSpeed with the camera zoomed out
ZoomSpeeds == { 0, 160 * Scale }

InitZoom ==
  /\ posts = {"p1", "p2"}
  /\ ship = NewShip
  /\ dive = NewDiveMode
  /\ controls = NewControls
  /\ camera = NewCamera
  /\ sidebar = NewSidebar
  /\ settings = NewSettings
  /\ lastNearby = <<>>
  /\ visited = {}
  /\ frameCount = 0
  /\ now = FrameMs
  /\ nEvents = 0
  /\ exitPending = FALSE
  /\ hold = NoHold
  /\ trace = NoTrace
  /\ IdleQT
  /\ IdleConn

\* the input listener of a slider
SetSlider ==
  /\ nEvents < MaxSlides
  /\ nEvents' = nEvents + 1
  /\ \E key \in DOMAIN SliderValues : \E value \in SliderValues[key] :
       settings' = [settings EXCEPT ![key] = value]
  /\ trace' = [Fresh EXCEPT !.op = "slider"]
  /\ UNCHANGED <<posts, ship, dive, controls, camera, sidebar, lastNearby, visited,
                 frameCount, now, exitPending>>
  /\ UNCHANGED <<qtVars, connVars, hold>>

\* the auto-zoom block and camera.update of one tick
ZoomTick ==
  /\ frameCount < MaxZoomTicks
  /\ frameCount' = frameCount + 1
  /\ \E d \in ZoomDives, nearby \in ZoomNearby, speed \in ZoomSpeeds :
       LET u == TickCamera([Bundle EXCEPT !.dive = d, !.lastNearby = nearby,
                                          !.ship.speed = speed])
       IN  /\ camera' = u.camera
           /\ dive' = d
           /\ lastNearby' = nearby
           /\ ship' = u.ship
  /\ trace' = [Fresh EXCEPT !.op = "tick"]
  /\ UNCHANGED <<posts, controls, sidebar, settings, visited, now, nEvents, exitPending>>
  /\ UNCHANGED <<qtVars, connVars, hold>>

NextZoom == SetSlider \/ ZoomTick

SpecZoom == InitZoom /\ [][NextZoom]_vars

-----------------------------------------------------------------------------
(* Claims about the quadtree (SpecQT) *)

SeqToSet(q) == { q[i] : i \in 1 .. Len(q) }

Children(n) == << n.ne[1], n.nw[1], n.se[1], n.sw[1] >>

RECURSIVE TreePoints(_)
\* every point held anywhere in the tree below n
TreePoints(n) ==
  SeqToSet(n.points)
  \cup (IF n.divided
          THEN UNION { TreePoints(Children(n)[k]) : k \in 1 .. 4 }
          ELSE {})

\* C1: queryRadius(cx, cy, r) returns exactly the successfully inserted
\* points with squared distance <= r*r to (cx, cy), each exactly once, the
\* result of a linear scan over the inserted points.
C1_QueryRadiusIsLinearScan ==
  query.kind = "radius" =>
    LET scan == { p \in SeqToSet(inserted) :
                    (p.x - query.cx) * (p.x - query.cx)
                      + (p.y - query.cy) * (p.y - query.cy) <= query.r * query.r }
    IN  /\ SeqToSet(query.found) = scan
        /\ Len(query.found) = Cardinality(scan)

\* the children's rectangles are the four equal quadrants of b
ExactQuadrants(n) ==
  LET b == n.bounds
      Quarter(c, left, top) ==
        /\ 2 * c.bounds.width = b.width
        /\ 2 * c.bounds.height = b.height
        /\ 2 * c.bounds.x = (IF left THEN 2 * b.x ELSE 2 * b.x + b.width)
        /\ 2 * c.bounds.y = (IF top THEN 2 * b.y ELSE 2 * b.y + b.height)
  IN  /\ Quarter(n.nw[1], TRUE, TRUE)
      /\ Quarter(n.ne[1], FALSE, TRUE)
      /\ Quarter(n.sw[1], TRUE, FALSE)
      /\ Quarter(n.se[1], FALSE, FALSE)

RECURSIVE LeafOrInternal(_)
LeafOrInternal(n) ==
  IF n.divided
    THEN /\ Len(n.ne) = 1 /\ Len(n.nw) = 1 /\ Len(n.se) = 1 /\ Len(n.sw) = 1
         /\ n.points = <<>>
         /\ ExactQuadrants(n)
         /\ \A k \in 1 .. 4 : LeafOrInternal(Children(n)[k])
    ELSE /\ Len(n.ne) = 0 /\ Len(n.nw) = 0 /\ Len(n.se) = 0 /\ Len(n.sw) = 0
         /\ Len(n.points) <= n.capacity

\* C2: every node is either a leaf (not divided, no children, at most
\* capacity points) or an internal node (divided, four children that are the
\* equal quadrants of its rectangle, no direct points).
C2_LeafOrInternal == LeafOrInternal(root)

\* x in [b.x, b.x + b.width) and y in [b.y, b.y + b.height)
Within(b, p) ==
  /\ b.x <= p.x /\ p.x < b.x + b.width
  /\ b.y <= p.y /\ p.y < b.y + b.height

RECURSIVE PointsContained(_, _)
\* the points of n and below lie in their node's bounds and in every bounds
\* of `above`, the bounds of the ancestors
PointsContained(n, above) ==
  /\ \A p \in SeqToSet(n.points) :
       Within(n.bounds, p) /\ \A b \in above : Within(b, p)
  /\ n.divided =>
       \A k \in 1 .. 4 : PointsContained(Children(n)[k], above \cup {n.bounds})

\* C3: every stored point lies within the bounds of the node that holds it,
\* and within the bounds of every ancestor of that node up to the root.
C3_PointsWithinBounds == PointsContained(root, {})

\* C3 witness: the root is divided and its subtree holds two points or more
C3_Witness == root.divided /\ Cardinality(TreePoints(root)) >= 2

RECURSIVE TreeCount(_)
\* the number of entries of the points arrays of n and below
TreeCount(n) ==
  Len(n.points)
  + (IF n.divided
       THEN TreeCount(n.ne[1]) + TreeCount(n.nw[1]) + TreeCount(n.se[1]) + TreeCount(n.sw[1])
       ELSE 0)

\* C26: an insert of a point inside the root bounds returns true, and the
\* points held in the tree are, with their multiplicities, the points whose
\* insert returned true; also when more than `capacity` points coincide.
C26_InsertLosesNoPoint ==
  /\ (query.kind = "insert" /\ Within(root.bounds, [x |-> query.cx, y |-> query.cy]))
       => insertResult = TRUE
  /\ TreePoints(root) = SeqToSet(inserted)
  /\ TreeCount(root) = Len(inserted)

-----------------------------------------------------------------------------
(* Claims about the dive state machine (SpecRT, SpecDive) *)

Idle(d) == ~d.active /\ d.targetIdea = 0

Diving(d) == d.active /\ d.targetIdea \in IdeaRefs

\* C4: in every reachable state of the runtime the dive state is Idle
\* (inactive, null target) or Diving (active, target an idea of the dataset);
\* exit() in Idle leaves Idle, and enter(idea) in Diving stays Diving with
\* the new target.
C4_IdleOrDiving ==
  /\ Idle(dive) \/ Diving(dive)
  /\ Idle(dive) => exit(dive) = dive
  /\ Diving(dive) =>
       \A idea \in IdeaRefs : enter(dive, idea) = [dive EXCEPT !.targetIdea = idea]

\* C4 witness: a voyage-log navigation entered an idea while Diving on
\* another one
C4_Witness ==
  /\ trace.op = "voyageLog.navigate"
  /\ trace.writes = << "enter" >>
  /\ Diving(trace.before)
  /\ Diving(dive)
  /\ dive.targetIdea # trace.before.targetIdea

\* C5: while Diving, checkProximitySwitch(candidates) changes the target iff
\* the list is non-empty, its first entry is not the current target and its
\* distance is below 80; then the target is that idea and the callback fired
\* once with it.  Otherwise the state is unchanged and no callback fired.
C5_ProximitySwitch ==
  (trace.op = "checkProximitySwitch" /\ Diving(trace.before)) =>
    LET candidates == trace.arg
        switches ==
          /\ Len(candidates) > 0
          /\ Ideas[candidates[1].idea].id # Ideas[trace.before.targetIdea].id
          /\ candidates[1].distance < 80 * Scale
    IN  IF switches
          THEN /\ dive = [active |-> TRUE, targetIdea |-> candidates[1].idea]
               /\ trace.switched = << candidates[1].idea >>
          ELSE /\ dive = trace.before
               /\ trace.switched = <<>>

\* C5 witness: a check while Diving moved the target to the nearest candidate
C5_Witness ==
  /\ trace.op = "checkProximitySwitch"
  /\ Diving(trace.before)
  /\ Len(trace.switched) = 1
  /\ dive.targetIdea # trace.before.targetIdea

\* C6: in Idle, checkProximitySwitch and updateShipMagnet leave the dive
\* state Idle, call no switch callback and leave the ship as it was.
C6_IdleNoEffect ==
  [][ (Idle(dive) /\ trace'.op \in {"checkProximitySwitch", "updateShipMagnet"})
        => (dive' = dive /\ ship' = ship /\ trace'.switched = <<>>) ]_vars

\* C6 witness: a check in Idle with a candidate at distance 0
C6_Witness ==
  /\ trace.op = "checkProximitySwitch"
  /\ Idle(trace.before)
  /\ Len(trace.arg) > 0
  /\ trace.arg[1].distance = 0

\* C7: the tick that serves an exit request ends Idle, and the tick that
\* follows an exit request applies no magnet force, whatever the settings
\* and the ship position.
C7_ExitEffective ==
  /\ (trace.op = "tick" /\ trace.exitRequest) => Idle(dive)
  /\ (trace.op = "tick" /\ trace.afterExit) => ~trace.magnet

\* C8: the dive state changes only through enter, exit and the target
\* switch of checkProximitySwitch.
C8_OnlyDiveModeWrites ==
  /\ dive # trace.before => trace.writes # <<>>
  /\ \A k \in 1 .. Len(trace.writes) :
       trace.writes[k] \in {"enter", "exit", "switchTarget"}

-----------------------------------------------------------------------------
(* Claims about the connection finder (SpecConn) *)

\* the distance the code computes between ideas i and j
Dist(i, j) ==
  LET dx == ideasDeduped[j].x - ideasDeduped[i].x
      dy == ideasDeduped[j].y - ideasDeduped[i].y
  IN  Sqrt(dx * dx + dy * dy)

Others(i) == { j \in 1 .. Len(ideasDeduped) : j # i }

OtherPost(i) == { j \in Others(i) : ideasDeduped[j].post_id # ideasDeduped[i].post_id }

\* connections[i].nearby is a nearest idea of the set js
NearestOf(i, js) ==
  \E j \in js : /\ connections[i].nearby = ideasDeduped[j].id
                /\ \A k \in js : Dist(i, j) <= Dist(i, k)

\* C9: if some other idea has a different post_id, nearby of i is an idea
\* of a different post_id at minimal distance among those.
C9_NearbyDifferentPost ==
  \A i \in 1 .. Len(connections) : OtherPost(i) # {} => NearestOf(i, OtherPost(i))

\* C10: if no other idea has a different post_id, nearby of i is an idea at
\* minimal distance among all other ideas.
C10_NearbyFallback ==
  \A i \in 1 .. Len(connections) :
    (Others(i) # {} /\ OtherPost(i) = {}) => NearestOf(i, Others(i))

\* C11: in the ideas written to ideas.json every non-null connections.nearby
\* and connections.far is the id of an idea of the same output, and not the
\* id of the idea that holds the link.
C11_ConnectionsResolve ==
  \A i \in 1 .. Len(ideasOut) :
    \A link \in { ideasOut[i].connections.nearby, ideasOut[i].connections.far } :
      link # "null" =>
        /\ \E k \in 1 .. Len(ideasOut) : ideasOut[k].id = link
        /\ link # ideasOut[i].id

\* C11 witness: ideas.json is written and an idea has both links
C11_Witness ==
  /\ ideasOut # <<>>
  /\ \E i \in 1 .. Len(ideasOut) :
       /\ ideasOut[i].connections.nearby # "null"
       /\ ideasOut[i].connections.far # "null"

\* the ideas that can be the far link of idea i: a different post_id and
\* more than 1500 units away
FarCandidates(i) == { j \in OtherPost(i) : Dist(i, j) > 1500 }

Sim(i, j) == cosineSim(ideasDeduped[i].emb, ideasDeduped[j].emb)

\* C21: connections.far of idea i is null if no idea of a different post_id
\* lies more than 1500 units from i; otherwise it is the id of such an idea
\* whose cosine similarity to i is the highest among all of them.
C21_FarLink ==
  \A i \in 1 .. Len(connections) :
    IF FarCandidates(i) = {}
      THEN connections[i].far = "null"
      ELSE \E j \in FarCandidates(i) :
             /\ connections[i].far = ideasDeduped[j].id
             /\ \A k \in FarCandidates(i) : Sim(i, j) >= Sim(i, k)

\* C21 witness: an idea has two far candidates of different similarity and
\* its far link is the more similar one, which the loop met second
C21_Witness ==
  \E i \in 1 .. Len(connections) :
    \E j, k \in FarCandidates(i) :
      /\ Sim(i, j) > Sim(i, k)
      /\ j > k
      /\ connections[i].far = ideasDeduped[j].id

-----------------------------------------------------------------------------
(* Claims about the deduplicator (SpecDedup) *)

IdeaById(id) == CHOOSE r \in SeqToSet(ideasRaw) : r.id = id

\* C12: a comparison of two ideas, neither dropped before, drops exactly the
\* one with the shorter quote (the later one on equal lengths) if their
\* cosine similarity is > 0.92 and nothing otherwise; only ideas of one topic
\* are compared.
C12_PairRule ==
  cmp.compared =>
    LET ideaA == IdeaById(cmp.a)
        ideaB == IdeaById(cmp.b)
        shorter == IF ideaA.quote < ideaB.quote THEN ideaA.id ELSE ideaB.id
    IN  /\ ideaA.topic = ideaB.topic
        /\ (~cmp.aWasDropped /\ ~cmp.bWasDropped) =>
             IF cosineSim(ideaA.emb, ideaB.emb) > 9200
               THEN cmp.dropped = shorter /\ dropIds = cmp.before \cup { shorter }
               ELSE cmp.dropped = "none" /\ dropIds = cmp.before

\* C12 witness: two ideas with quotes of equal length were compared and the
\* later one was dropped
C12_Witness ==
  /\ cmp.compared
  /\ ~cmp.aWasDropped
  /\ cmp.dropped = cmp.b
  /\ IdeaById(cmp.a).quote = IdeaById(cmp.b).quote

\* C13: an idea that is marked dropped takes part in no further comparison,
\* as neither side of the pair, and so causes no later idea to be dropped.
C13_DroppedTakesNoPart ==
  /\ cmp.compared => (~cmp.aWasDropped /\ ~cmp.bWasDropped)
  /\ cmp.aWasDropped => cmp.dropped = "none"

\* surviving ideas i < j of one topic, both with embeddings
SurvivorPairs ==
  { p \in (1 .. Len(ideasDeduped)) \X (1 .. Len(ideasDeduped)) :
      /\ p[1] < p[2]
      /\ ideasDeduped[p[1]].topic = ideasDeduped[p[2]].topic
      /\ ideasDeduped[p[1]].emb # <<>>
      /\ ideasDeduped[p[2]].emb # <<>> }

\* C14: the dedup loops run on their own output drop nothing: no two
\* survivors of one topic with embeddings have cosine similarity > 0.92.
C14_Idempotent ==
  (dedup.done /\ dedup.filtered) =>
    /\ DedupFrom(ideasDeduped, {}, EnterOuter(ideasDeduped, {}, 1, 1)) = {}
    /\ \A p \in SurvivorPairs :
         cosineSim(ideasDeduped[p[1]].emb, ideasDeduped[p[2]].emb) <= 9200

\* C14 witness: the pass dropped an idea and left two comparable survivors
C14_Witness ==
  /\ dedup.done /\ dedup.filtered
  /\ dropIds # {}
  /\ SurvivorPairs # {}

-----------------------------------------------------------------------------
(* Claims about the proximity manager (SpecLOD, SpecRT) *)

\* the ideas held in the quadtree within 1200 units of the ship
IdeasInRange ==
  { p.data : p \in { q \in TreePoints(quadtree) :
      (Ideas[q.data].x - ship.x) * (Ideas[q.data].x - ship.x)
        + (Ideas[q.data].y - ship.y) * (Ideas[q.data].y - ship.y)
        <= (1200 * Scale) * (1200 * Scale) } }

\* d is the Euclidean distance from the ship to idea i, rounded down
IsDistance(d, i) ==
  LET sq == (Ideas[i].x - ship.x) * (Ideas[i].x - ship.x)
              + (Ideas[i].y - ship.y) * (Ideas[i].y - ship.y)
  IN  d >= 0 /\ d * d <= sq /\ sq < (d + 1) * (d + 1)

\* C15: an update that does not skip returns one entry for exactly each idea
\* held in the quadtree within 1200 units of (x, y), with its Euclidean
\* distance, in order of non-decreasing distance.
C15_NearbyList ==
  trace.op = "update" =>
    /\ { lastNearby[k].idea : k \in 1 .. Len(lastNearby) } = IdeasInRange
    /\ Len(lastNearby) = Cardinality(IdeasInRange)
    /\ \A k \in 1 .. Len(lastNearby) : IsDistance(lastNearby[k].distance, lastNearby[k].idea)
    /\ \A k \in 1 .. Len(lastNearby) - 1 :
         lastNearby[k].distance <= lastNearby[k + 1].distance

\* C15 witness: an update returned some ideas and left one out, and the order
\* of the list is not the order of insertion
C15_Witness ==
  /\ trace.op = "update"
  /\ Len(lastNearby) >= 2
  /\ Len(lastNearby) < Len(Ideas)
  /\ lastNearby[1].idea > lastNearby[2].idea

\* C16: update returns null on every tick whose frameCount is not a multiple
\* of 3 and queries on the others; the game loop replaces lastNearby only on
\* a tick whose frameCount is a multiple of 3 and keeps it on the others.
C16_Throttle ==
  [][ trace'.op = "tick" =>
        /\ LODUpdate(ship'.x, ship'.y, frameCount').skipped = (frameCount' % 3 # 0)
        /\ frameCount' % 3 # 0 => lastNearby' = lastNearby
        /\ frameCount' % 3 = 0 =>
             lastNearby' = LODUpdate(ship'.x, ship'.y, frameCount').nearby ]_vars

\* C16 witness: a tick that is no multiple of 3 kept a list that an update at
\* the ship's position would have replaced
C16_Witness ==
  /\ trace.op = "tick"
  /\ frameCount % 3 # 0
  /\ lastNearby # <<>>
  /\ lastNearby # LODUpdate(ship.x, ship.y, 3).nearby

-----------------------------------------------------------------------------
(* Claims about the camera zoom (SpecZoom) *)

\* C17: camera.zoom lies within [minZoom, maxZoom] = [0.03, 10] in every
\* reachable state, for every candidate distance, ship speed and settings
\* value.
C17_ZoomBounds == 30 <= camera.zoom /\ camera.zoom <= 10000

\* C18: on a tick that computes the zoom target while Diving, the target is
\* settings.diveZoom clamped to [minZoom, maxZoom], whatever the candidate
\* list and the ship's speed.
C18_DiveZoom ==
  (trace.op = "tick" /\ Diving(dive)) =>
    camera._targetZoom = Max(30, Min(10000, settings.diveZoom))

\* C18 witness: a tick while Diving, the ship cruising with a candidate at
\* distance 0, the dive zoom moved by its slider
C18_Witness ==
  /\ trace.op = "tick"
  /\ Diving(dive)
  /\ ship.speed > 0
  /\ lastNearby # <<>>
  /\ settings.diveZoom # NewSettings.diveZoom
  /\ camera._targetZoom = settings.diveZoom

-----------------------------------------------------------------------------
(* Further claims about the quadtree (SpecQT) *)

\* C19: queryRect(x, y, w, h) returns exactly the successfully inserted
\* points p with x <= p.x < x + w and y <= p.y < y + h, each exactly once,
\* the result of a linear scan over the inserted points.
C19_QueryRectIsLinearScan ==
  query.kind = "rect" =>
    LET hits == { p \in SeqToSet(inserted) :
                    /\ query.x <= p.x /\ p.x < query.x + query.w
                    /\ query.y <= p.y /\ p.y < query.y + query.h }
    IN  /\ SeqToSet(query.found) = hits
        /\ Len(query.found) = Cardinality(hits)

\* C20: an insert on the root of a point outside the root's bounds returns
\* false and leaves the whole tree as it was.
C20_OutOfBoundsRejected ==
  [][ ( /\ query'.kind = "insert"
        /\ ~Within(root.bounds, [x |-> query'.cx, y |-> query'.cy]) )
        => (insertResult' = FALSE /\ root' = root) ]_vars

\* C20 witness: a point outside the root was rejected by a tree that is
\* subdivided
C20_Witness ==
  /\ query.kind = "insert"
  /\ ~Within(root.bounds, [x |-> query.cx, y |-> query.cy])
  /\ insertResult = FALSE
  /\ root.divided

-----------------------------------------------------------------------------
(* SpecKeys: the arrow-hold undive.  ShipControls is driven by key events, *)
(* by the dive entries of main.js (enter and resetArrowUndive) and by the  *)
(* arrow-hold step of the game loop, one tick every FrameMs.               *)

MaxKeyTicks == 6

InitKeys ==
  /\ posts \in PostSets
  /\ ship = NewShip
  /\ dive = NewDiveMode
  /\ controls = NewControls
  /\ camera = NewCamera
  /\ sidebar = NewSidebar
  /\ settings = NewSettings
  /\ lastNearby = <<>>
  /\ visited = {}
  /\ frameCount = 0
  /\ now = FrameMs
  /\ nEvents = 0
  /\ exitPending = FALSE
  /\ hold = NoHold
  /\ trace = NoTrace
  /\ IdleQT
  /\ IdleConn

FrameKeys ==
  UNCHANGED <<posts, ship, camera, settings, lastNearby, nEvents, exitPending, trace,
              qtVars, connVars>>

\* keydown: a press of a movement key while none is held is a fresh press
KeysDown ==
  /\ \E key \in ModelKeys :
       /\ controls' = _onKeyDown(controls, key)
       /\ hold' = IF key \in ArrowKeys /\ ~_anyArrowHeld(controls)
                    THEN [hold EXCEPT !.fresh = TRUE, !.pressedAt = now, !.last = "none"]
                    ELSE [hold EXCEPT !.last = "none"]
  /\ UNCHANGED <<dive, sidebar, visited, frameCount, now>>
  /\ FrameKeys

\* keyup
KeysUp ==
  /\ \E key \in controls._keys : controls' = _onKeyUp(controls, key)
  /\ hold' = [hold EXCEPT !.last = "none"]
  /\ UNCHANGED <<dive, sidebar, visited, frameCount, now>>
  /\ FrameKeys

\* main.js: the dive entry, if (post) { diveMode.enter(nearest);
\* controls.resetArrowUndive(); sidebar.show(...) }
KeysEnterDive ==
  /\ ~dive.active
  /\ \E idea \in IdeaRefs :
       LET u == EnterIfPost(Bundle, idea, now)
       IN  /\ u.dive.active
           /\ dive' = u.dive
           /\ controls' = u.controls
           /\ sidebar' = u.sidebar
           /\ visited' = u.visited
  /\ hold' = NoHold
  /\ UNCHANGED <<frameCount, now>>
  /\ FrameKeys

\* main.js: a tick, of which the arrow-hold undive is kept
\* (if (diveMode.active && controls.consumeArrowUndive(1500)) { exit; hide })
KeysTick ==
  /\ frameCount < MaxKeyTicks
  /\ frameCount' = frameCount + 1
  /\ now' = now + FrameMs
  /\ LET u == TickArrowUndive(Bundle, now')
         fired == dive.active /\ consumeArrowUndive(controls, 1500, now').v
     IN  /\ dive' = u.dive
         /\ controls' = u.controls
         /\ sidebar' = u.sidebar
         /\ visited' = u.visited
         /\ hold' = [hold EXCEPT !.fired = IF fired THEN @ + 1 ELSE @,
                                 !.last = IF fired THEN "undive" ELSE "none"]
  /\ FrameKeys

NextKeys == KeysDown \/ KeysUp \/ KeysEnterDive \/ KeysTick

SpecKeys == InitKeys /\ [][NextKeys]_vars

-----------------------------------------------------------------------------
(* SpecSep: the separation loop on every configuration of up to            *)
(* SepCentroids centroids of a small grid.                                 *)

SepCentroids == 3

SepXs == { 0, 50, 120, 400 }

SepYs == { 0, 90 }

TopicNames == << "t1", "t2", "t3", "t4" >>

InitSep ==
  /\ \E n \in 1 .. SepCentroids :
       \E xs \in [1 .. n -> SepXs], ys \in [1 .. n -> SepYs] :
         topicCentroids = [ i \in 1 .. n |->
                              [name |-> TopicNames[i], x |-> xs[i], y |-> ys[i],
                               count |-> 1] ]
  /\ stage = "contracted"
  /\ projection = <<>>
  /\ umapNorm = <<>>
  /\ sep = NoSep
  /\ positions = <<>>
  /\ jit = NoJit
  /\ topicsOutput = <<>>
  /\ random = {}
  /\ ideasDeduped = <<>>
  /\ connections = <<>>
  /\ ideasOut = <<>>
  /\ IdleDedup
  /\ IdleQT
  /\ IdleRT

NextSep == SeparationPass

SpecSep == InitSep /\ [][NextSep]_vars

-----------------------------------------------------------------------------
(* SpecLayout: the layout from the UMAP output to ideas.json and           *)
(* topics.json, for LayoutIdeas ideas; topics are named in the order of    *)
(* their first idea and the first idea has post p                          *)

LayoutIdeas == 3

LayoutXs == { 0, 1, 10 }

LayoutYs == { 0, 1 }

LayoutTopics == { "t1", "t2", "t3" }

InitLayout ==
  /\ projection \in [1 .. LayoutIdeas -> [x : LayoutXs, y : LayoutYs]]
  /\ \E ts \in [1 .. LayoutIdeas -> LayoutTopics], ps \in [1 .. LayoutIdeas -> ConnPosts] :
       /\ KeyOrder(ts, 1, <<>>) = SubSeq(TopicNames, 1, Len(KeyOrder(ts, 1, <<>>)))
       /\ ps[1] = "p"
       /\ ideasDeduped = [i \in 1 .. LayoutIdeas |->
                            [id |-> ConnIds[i], post_id |-> ps[i], topic |-> ts[i]]]
  /\ stage = "projected"
  /\ umapNorm = <<>>
  /\ topicCentroids = <<>>
  /\ sep = NoSep
  /\ positions = <<>>
  /\ jit = NoJit
  /\ topicsOutput = <<>>
  /\ random = [1 .. 4 -> JitterDraws]
  /\ connections = <<>>
  /\ ideasOut = <<>>
  /\ IdleDedup
  /\ IdleQT
  /\ IdleRT

NextLayout ==
  \/ NormalizeStep
  \/ ContractStep
  \/ SeparationPass
  \/ PositionsStep
  \/ JitterStep
  \/ WriteLayout

SpecLayout == InitLayout /\ [][NextLayout]_vars

-----------------------------------------------------------------------------
(* SpecLoad: the layout for up to LoadIdeas ideas of one post and one      *)
(* topic that UMAP placed at one point, with the four Math.random() calls  *)
(* of a jittered pair yielding the same offsets throughout a run           *)

LoadIdeas == 36

\* <<offset of ia.x, ia.y, ib.x, ib.y>>
LoadRandoms ==
  { << 0, 0, 0, 0 >>,
    << 0, 0, 0 - JITTER_RADIUS * Thousand, 0 >>,
    << 0, 0, JITTER_RADIUS * Thousand - 1, JITTER_RADIUS * Thousand - 1 >> }

InitLoad ==
  /\ \E n \in 1 .. LoadIdeas :
       /\ projection = [i \in 1 .. n |-> [x |-> 3, y |-> 4]]
       /\ ideasDeduped = [i \in 1 .. n |-> [id |-> i, post_id |-> "p", topic |-> "t1"]]
  /\ \E d \in LoadRandoms : random = { d }
  /\ stage = "projected"
  /\ umapNorm = <<>>
  /\ topicCentroids = <<>>
  /\ sep = NoSep
  /\ positions = <<>>
  /\ jit = NoJit
  /\ topicsOutput = <<>>
  /\ connections = <<>>
  /\ ideasOut = <<>>
  /\ IdleDedup
  /\ IdleQT
  /\ IdleRT

SpecLoad == InitLoad /\ [][NextLayout]_vars

-----------------------------------------------------------------------------
(* Claims about the layout (SpecNorm, SpecSep, SpecLayout, SpecLoad) *)

\* C22: for a non-empty list of finite raw pairs every normalized coordinate
\* lies in [0, 1] on both axes, and on an axis whose raw values are all equal
\* every point gets coordinate 0.
C22_NormalizedInUnitSquare ==
  stage = "normalized" =>
    /\ \A i \in 1 .. Len(umapNorm) :
         /\ 0 <= umapNorm[i].x /\ umapNorm[i].x <= Thousand
         /\ 0 <= umapNorm[i].y /\ umapNorm[i].y <= Thousand
    /\ (\A i \in 1 .. Len(projection) : projection[i].x = projection[1].x)
         => \A i \in 1 .. Len(umapNorm) : umapNorm[i].x = 0
    /\ (\A i \in 1 .. Len(projection) : projection[i].y = projection[1].y)
         => \A i \in 1 .. Len(umapNorm) : umapNorm[i].y = 0

\* two centroids at one place
Coincide(ca, cb) == ca.x = cb.x /\ ca.y = cb.y

\* C23: the separation loop runs at most 20 passes and has ended after the
\* 20th; it ends before the pass budget is used up exactly when a pass moved
\* no centroid, and the step of a pair of coincident centroids moves neither
\* of them.
C23_SeparationTerminates ==
  /\ sep.pass <= PASS_BUDGET
  /\ sep.done <=> (sep.pass > 0 /\ (~sep.moved \/ sep.pass = PASS_BUDGET))
  /\ (sep.done /\ sep.pass < PASS_BUDGET) => ~sep.moved
  /\ \A a, b \in 1 .. Len(topicCentroids) :
       (a < b /\ Coincide(topicCentroids[a], topicCentroids[b]))
         => SepPair(topicCentroids, a, b) = [cs |-> topicCentroids, moved |-> FALSE]

\* C23 witness: the loop used all 20 passes and the last one still set
\* `moved`: the gap was not reached within the budget
C23_Witness ==
  /\ Len(topicCentroids) > 2
  /\ sep.done /\ sep.pass = PASS_BUDGET /\ sep.moved

\* the affine image of a contracted normalized coordinate
Affine(v) == Thousand * WORLD_MIN + v * (WORLD_MAX - WORLD_MIN)

\* the ideas that took part in a pair the jitter loops moved
Jittered == { i \in 1 .. Len(positions) :
                \E k \in 1 .. Len(jit.pairs) :
                  jit.pairs[k].hit /\ i \in { jit.pairs[k].ia, jit.pairs[k].ib } }

\* the ideas of a topic
Members(topic) == { i \in 1 .. Len(ideasOut) : ideasOut[i].topic = topic }

RECURSIVE SumOf(_, _)
SumOf(f, js) ==
  IF js = {} THEN 0 ELSE LET j == CHOOSE j \in js : TRUE IN f[j] + SumOf(f, js \ { j })

Pairs ==
  { {i, j} : i, j \in 1 .. Len(ideasDeduped) } \ { {i} : i \in 1 .. Len(ideasDeduped) }

\* the position of idea i before the jitter
Unjittered(i) == PositionOf(umapNorm[i], CentroidOf(topicCentroids, ideasDeduped[i].topic))

\* C25: the jitter loops examine each unordered pair of ideas of one post
\* exactly once and no pair of different posts; if no two ideas of one post
\* are closer than 20 units before the loops, no position changes; the only
\* idea of a post is never moved.
C25_JitterLocal ==
  stage \in {"jittered", "written"} =>
    /\ \A k, l \in 1 .. Len(jit.pairs) :
         k # l => {jit.pairs[k].ia, jit.pairs[k].ib} # {jit.pairs[l].ia, jit.pairs[l].ib}
    /\ { {jit.pairs[k].ia, jit.pairs[k].ib} : k \in 1 .. Len(jit.pairs) }
         = { pr \in Pairs :
               \A i, j \in pr : ideasDeduped[i].post_id = ideasDeduped[j].post_id }
    /\ (\A i, j \in 1 .. Len(positions) :
          (i # j /\ ideasDeduped[i].post_id = ideasDeduped[j].post_id)
            => ~Overlapping(Unjittered(i), Unjittered(j)))
         => \A i \in 1 .. Len(positions) : positions[i] = Unjittered(i)
    /\ \A i \in 1 .. Len(positions) :
         (\A j \in 1 .. Len(positions) :
            j # i => ideasDeduped[j].post_id # ideasDeduped[i].post_id)
           => positions[i] = Unjittered(i)

\* C25 witness: two ideas of one post overlapped and were moved, and an idea
\* of another post at the same place was left where it was
C25_Witness ==
  /\ stage = "jittered"
  /\ \E i, j, k \in 1 .. Len(positions) :
       /\ i \in Jittered /\ j \in Jittered
       /\ positions[i] # Unjittered(i)
       /\ ideasDeduped[k].post_id # ideasDeduped[i].post_id
       /\ Unjittered(k) = Unjittered(i)
       /\ positions[k] = Unjittered(k)

\* main.js: new PointQuadtree({ x: -6000, y: -6000, width: 12000, height: 12000 }, 10),
\* in thousandths of a world unit
LoadedTree ==
  NewNode([ x |-> 0 - 6000 * Thousand, y |-> 0 - 6000 * Thousand,
            width |-> 12000 * Thousand, height |-> 12000 * Thousand ], 10)

\* C27: every position written to ideas.json lies inside the root bounds of
\* the runtime quadtree, so that its insert is not refused.
C27_PositionsInsideRoot ==
  stage = "written" =>
    \A i \in 1 .. Len(ideasOut) :
      /\ Within(LoadedTree.bounds, ideasOut[i])
      /\ insert(LoadedTree, [x |-> ideasOut[i].x, y |-> ideasOut[i].y, data |-> i]).ok

-----------------------------------------------------------------------------
(* Claims about the sidebar (SpecRT) *)

\* C30: from a hidden sidebar, after every tick and every UI event handler
\* the sidebar is visible exactly when the dive state is Diving.
C30_SidebarIffDiving == (~sidebar.hidden) <=> dive.active

\* C30 witness: a tick while Diving made a proximity switch; the sidebar is
\* still visible and shows the idea switched to
C30_Witness ==
  /\ trace.switched # <<>>
  /\ trace.before.active
  /\ dive.active
  /\ ~sidebar.hidden
  /\ sidebar._currentIdea = trace.switched[1]

-----------------------------------------------------------------------------
(* Claims about the settings sliders (SpecZoom) *)

\* C29: with any settings the sliders can reach, farThreshold - closeThreshold
\* is positive, and the target a tick outside a dive hands to the camera is a
\* number (the proximity term has not divided by zero).
C29_ThresholdsApart ==
  /\ settings.farThreshold - settings.closeThreshold > 0
  /\ (trace.op = "tick" /\ ~dive.active) => camera._targetZoom # NaN

-----------------------------------------------------------------------------
(* Claims about the arrow-hold undive (SpecKeys) *)

\* C28: consumeArrowUndive(1500) returns true only if, since the dive was
\* entered, a movement key was pressed while none was held and at least
\* 1500 ms have passed since that press, and at most once per dive.
C28_UndiveNeedsFreshPress ==
  hold.last = "undive" =>
    /\ hold.fresh
    /\ now - hold.pressedAt >= 1500
    /\ hold.fired <= 1

====
